---- MODULE Spec2Model ----
(***************************************************************************)
(* The enemy-spawn engine of game_with_pygame (src/enemy_spawn_mgr.py),    *)
(* with the enemies it creates (src/enemy.py) and the frame loop that      *)
(* drives it.                                                              *)
(*                                                                         *)
(* Numbers.  strength, points and every health are Python floats.  They    *)
(* are held here as exact fixed-point integers: the value v is held as     *)
(* v * Unit, where 1/Unit = 0.0001/60 is the per-tick drift of strength,   *)
(* the smallest quantity the program ever adds.  So 1.0 is Unit, the       *)
(* default strength 0.005 is 3000, the kill bump 0.0006 is 360.            *)
(* Arithmetic is exact (the rounding error of binary floats is not         *)
(* modelled).  math.sqrt is never evaluated: every use of                  *)
(* base_enemy_health is a comparison with a rational, which is decided     *)
(* exactly by squaring.                                                    *)
(*                                                                         *)
(* Randomness.  A call of random.uniform / random.random is a              *)
(* nondeterministic choice.  Where the drawn float is rounded to an        *)
(* integer (Single health, Cluster amount) the model takes every integer   *)
(* some draw produces.  Where the float is kept (Cluster member healths)   *)
(* the model draws a + (b-a)*i/4 for i in 0..MaxDraw.                      *)
(***************************************************************************)
EXTENDS Integers, Sequences, FiniteSets, Bags, TLC

VARIABLES
    curr_tick,      \* Game.curr_tick
    ticked,         \* on_tick() has been called in the current frame
    pc,             \* "idle", or "drain" while on_tick is inside spawn_all
    enabled,        \* EnemySpawnMgr.enabled
    enable_after,   \* EnemySpawnMgr.enable_after: {} is None, {t} is the tick t
    strength,       \* EnemySpawnMgr.strength   (fixed point)
    points,         \* EnemySpawnMgr.points     (fixed point)
    next_enemy,     \* EnemySpawnMgr.next_enemy: the pending encounter
    enemies,        \* game.enemies: a bag of [health, max_hp] (fixed point)
    kill_reports,   \* number of game.on_kill_enemy invocations so far
    last_damage,    \* damage source of the frame's last hit: "None", "Bullet", "Env"
    hits,           \* history: number of hits so far
    ctor,           \* the constructor's arguments [strength, enabled, start_points]
    enable_calls,   \* history: number of enable() calls so far
    first_enable,   \* history: {} or {<<tick, delay>>} of the first enable() call
    accrued,        \* history: sum of the strength values added to points
    spent,          \* history: total health of the enemies the spawner created
    probe           \* the object exercised on its own (SpecStrategies, SpecUsesGame,
                    \* SpecSprites):
                    \* the last call made, its inputs and its result

vars == <<curr_tick, ticked, pc, enabled, enable_after, strength, points,
          next_enemy, enemies, kill_reports, last_damage, hits, ctor,
          enable_calls, first_enable, accrued, spent, probe>>

(***************************************************************************)
(* Bounds of the model                                                     *)
(***************************************************************************)
MaxTick == 2          \* frames explored
MaxDelay == 2         \* enable(delay) draws delay from 0..MaxDelay
MaxEnableCalls == 1   \* enable() calls per behaviour
MaxGateEnableCalls == 2   \* enable() calls per behaviour of SpecGate
MaxScenarioTicks == 100   \* frames of SpecScenario
MaxSetGameCalls == 2      \* set_game() calls on one UsesGame instance
MaxEnemies == 2       \* enemies alive at once
MaxHits == 1          \* hits (by bullets or otherwise) per behaviour
MaxSingleHealth == 3  \* integer healths considered for a Single encounter
MaxDraw == 1          \* a kept uniform draw is a + (b-a)*i/4, i in 0..MaxDraw

(***************************************************************************)
(* Program constants (fixed point)                                         *)
(***************************************************************************)
Unit == 600000        \* 1.0; 1/Unit is the drift 0.0001 / 60
DefaultStrength == 3000         \* strength=0.005
TickDrift == 1                  \* 0.0001 / 60
KillBase == 360                 \* 0.0006
ClusterMinStrength == 120000    \* 0.2
ClusterChanceCap == 210000      \* 0.35

\* Constructor arguments explored, EnemySpawnMgr(game, strength, enabled,
\* start_points): the defaults (0.005, False, 0.0); start_points 0.995, one
\* accrual short of the first health-1 encounter, constructed disabled and
\* enabled; strength 0.001, below the default; strength 0.25 with
\* start_points 4.0, where Cluster encounters are decided and affordable.
Ctors ==
    { [strength |-> DefaultStrength, enabled |-> FALSE, start_points |-> 0],
      [strength |-> DefaultStrength, enabled |-> FALSE, start_points |-> 597000],
      [strength |-> DefaultStrength, enabled |-> TRUE,  start_points |-> 597000],
      [strength |-> 600,    enabled |-> FALSE, start_points |-> 0],
      [strength |-> 150000, enabled |-> FALSE, start_points |-> 4 * Unit] }

(***************************************************************************)
(* util.py, and arithmetic helpers                                         *)
(***************************************************************************)
Min(a, b) == IF a <= b THEN a ELSE b
Max(a, b) == IF a >= b THEN a ELSE b

RECURSIVE SeqSum(_)
SeqSum(s) == IF s = <<>> THEN 0 ELSE Head(s) + SeqSum(Tail(s))

\* clamp(value, low, high); a bound of {} is None (no bound), {b} is the bound b.
clamp(value, low, high) ==
    LET lowered == IF low = {} THEN value
                   ELSE Max(value, CHOOSE b \in low : TRUE)
    IN  IF high = {} THEN lowered
        ELSE Min(lowered, CHOOSE b \in high : TRUE)

(***************************************************************************)
(* EnemySpawnMgr.base_enemy_health = sqrt(strength * 40), compared with    *)
(* the rational n/d (n >= 0, d > 0) by squaring:  S/Unit * 40 ? (n/d)^2.   *)
(***************************************************************************)
base_enemy_health_gt(S, n, d) == S * d * d > (Unit \div 40) * n * n
base_enemy_health_ge(S, n, d) == S * d * d >= (Unit \div 40) * n * n
base_enemy_health_lt(S, n, d) == ~base_enemy_health_ge(S, n, d)
base_enemy_health_le(S, n, d) == ~base_enemy_health_gt(S, n, d)

(***************************************************************************)
(* The encounters.  One record shape for both strategies:                  *)
(*   kind, health (Single, an integer), enemy_health_list and total_health *)
(*   (Cluster, fixed point).                                               *)
(***************************************************************************)
SingleEnemySpawn(h) ==
    [kind |-> "Single", health |-> h, enemy_health_list |-> <<>>,
     total_health |-> 0]
\* Variant: total_health keeps the 0 assigned in ClusterEnemySpawn.__init__.
ClusterEnemySpawn_stale_total(l) ==
    [kind |-> "Cluster", health |-> 0, enemy_health_list |-> l,
     total_health |-> 0]

ClusterEnemySpawn(l) ==
    [kind |-> "Cluster", health |-> 0, enemy_health_list |-> l,
     total_health |-> SeqSum(l)]

\* Variant of SingleEnemySpawn.randomize: the draw is truncated, int(health),
\* not rounded (0 for any draw below 1, k >= 2 iff 2m > k).
SingleEnemySpawn_randomize_trunc(S) ==
    { k \in 0..MaxSingleHealth :
        \/ k = 1
        \/ k >= 2 /\ base_enemy_health_gt(S, k, 2)
        \/ k = 0 /\ base_enemy_health_lt(S, 1, 2) }

\* SingleEnemySpawn.randomize: health = round(uniform(1, mean_health * 2)).
\* uniform(a, b) is a + (b-a)*r with r in [0,1): the draw lies in [1, 2m) when
\* 2m > 1 and in (2m, 1] when 2m < 1 (m = base_enemy_health).  round() is
\* Python's round-half-even.  So the health k is possible
\*   for k = 1 always (r = 0);
\*   for k >= 2 iff 2m > k - 1/2, i.e. m > (2k-1)/4;
\*   for k = 0 iff 2m < 1/2 (draws in (2m, 1/2] round to 0), i.e. m < 1/4.
SingleEnemySpawn_randomize(S) ==
    { k \in 0..MaxSingleHealth :
        \/ k = 1
        \/ k >= 2 /\ base_enemy_health_gt(S, 2 * k - 1, 4)
        \/ k = 0 /\ base_enemy_health_lt(S, 1, 4) }

\* The amounts round(uniform(mean_amount*0.7, mean_amount*1.3)) can give, with
\* mean_amount = strength * 3.0: the draw x lies in [2.1 s, 3.9 s), and
\* round(x) = k iff x is in (k - 1/2, k + 1/2), the ends included for even k.
ClusterAmountDraws(S) ==
    { k \in 0..(MaxEnemies + 1) :
        /\ 39 * S > 5 * Unit * (2 * k - 1)
        /\ IF k % 2 = 0 THEN 21 * S <= 5 * Unit * (2 * k + 1)
                        ELSE 21 * S <  5 * Unit * (2 * k + 1) }

\* mean_health = total_health / amount = 2.5 * base_enemy_health / amount;
\* math.floor and math.ceil of it.
ClusterMeanFloor(S, amount) ==
    CHOOSE j \in 0..(6 * MaxSingleHealth) :
        /\ base_enemy_health_ge(S, 2 * j * amount, 5)
        /\ base_enemy_health_lt(S, 2 * (j + 1) * amount, 5)
ClusterMeanCeil(S, amount) ==
    CHOOSE j \in 0..(6 * MaxSingleHealth) :
        /\ base_enemy_health_le(S, 2 * j * amount, 5)
        /\ j > 0 => base_enemy_health_gt(S, 2 * (j - 1) * amount, 5)

\* random.uniform(a, b) for a float that is kept: a + (b-a)*i/4 (fixed point),
\* a and b integers.
UniformKept(a, b) ==
    { a * Unit + ((b - a) * i * (Unit \div 4)) : i \in 0..MaxDraw }

\* Variant: the amount is clamped to at least 1, not 2.
ClusterEnemySpawn_randomize_min_one(S) ==
    UNION { LET amount == clamp(k, {1}, {})
                health_min == ClusterMeanFloor(S, amount) - 1
                health_max == ClusterMeanCeil(S, amount) + 1
            IN  [1..amount -> UniformKept(health_min, health_max)]
          : k \in ClusterAmountDraws(S) }

\* ClusterEnemySpawn.randomize: the enemy_health_list values it can produce.
ClusterEnemySpawn_randomize(S) ==
    UNION { LET amount == clamp(k, {2}, {})
                health_min == ClusterMeanFloor(S, amount) - 1
                health_max == ClusterMeanCeil(S, amount) + 1
            IN  [1..amount -> UniformKept(health_min, health_max)]
          : k \in ClusterAmountDraws(S) }

get_cost(o) == IF o.kind = "Single" THEN o.health * Unit ELSE o.total_health

\* EnemyWithHealth.__init__: health = max_hp = health.
EnemyWithHealth(h) == [health |-> h, max_hp |-> h]

RECURSIVE BagOfSeq(_)
BagOfSeq(s) ==
    IF s = <<>> THEN EmptyBag
    ELSE SetToBag({EnemyWithHealth(Head(s))}) (+) BagOfSeq(Tail(s))

\* spawn(): the enemies an encounter creates (positions are not modelled).
spawn(o) ==
    IF o.kind = "Single" THEN SetToBag({EnemyWithHealth(o.health * Unit)})
    ELSE BagOfSeq(o.enemy_health_list)

\* EnemySpawnMgr.decide_next_enemy: the encounters it can produce.  The draw
\* random.random() < cluster_chance is u/Unit < cluster_chance for u in
\* ChanceDraws.
ChanceDraws == {0, Unit \div 10, Unit \div 4, ClusterChanceCap, Unit \div 2}
\* Variant: the test `self.strength > 0.2` is missing.
decide_next_enemy_draw_no_threshold(S, u) ==
    LET cluster_chance2 == clamp(S, {}, {2 * ClusterChanceCap})
    IN  IF 2 * u < cluster_chance2
        THEN { ClusterEnemySpawn(l) : l \in ClusterEnemySpawn_randomize(S) }
        ELSE { SingleEnemySpawn(h) : h \in SingleEnemySpawn_randomize(S) }

\* decide_next_enemy when random.random() returns u/Unit; cluster_chance2 is
\* twice cluster_chance = clamp(strength * 0.5, None, 0.35).
decide_next_enemy_draw(S, u) ==
    LET cluster_chance2 == clamp(S, {}, {2 * ClusterChanceCap})
    IN  IF S > ClusterMinStrength /\ 2 * u < cluster_chance2
        THEN { ClusterEnemySpawn(l) : l \in ClusterEnemySpawn_randomize(S) }
        ELSE { SingleEnemySpawn(h) : h \in SingleEnemySpawn_randomize(S) }

decide_next_enemy(S) ==
    UNION { decide_next_enemy_draw(S, u) : u \in ChanceDraws }

\* The value of `probe` while no strategy call has been made.
NoCall == [op |-> "none"]

(***************************************************************************)
(* EnemySpawnMgr: the gate                                                 *)
(***************************************************************************)
\* Variant: `enabled` is assigned the outcome of the test.
check_if_should_enable_assigns(en, ea, tick) ==
    ea # {} /\ (\A a \in ea : tick >= a)

\* Variant: the `enable_after is not None` test is missing (None counts as due).
check_if_should_enable_none_due(en, ea, tick) ==
    IF \A a \in ea : tick >= a THEN TRUE ELSE en

\* check_if_should_enable: the value of `enabled` after the call.
check_if_should_enable(en, ea, tick) ==
    IF ea # {} /\ (\A a \in ea : tick >= a) THEN TRUE ELSE en

\* Variant: enable() records enable_after and leaves the check to on_tick.
enable_call_no_check(delay) ==
    /\ pc = "idle" /\ ~ticked
    /\ enable_after' = {curr_tick + delay}
    /\ enabled' = enabled
    /\ enable_calls' = enable_calls + 1
    /\ first_enable' = IF enable_calls = 0 THEN {<<curr_tick, delay>>}
                       ELSE first_enable
    /\ UNCHANGED <<curr_tick, ticked, pc, strength, points, next_enemy,
                   enemies, kill_reports, last_damage, hits, ctor, probe, accrued, spent>>

\* The body of enable(delay), called during a frame's updates (Turret.__init__
\* reaches it through game.tutorial.place_turret()).
enable_call(delay) ==
    /\ pc = "idle" /\ ~ticked
    /\ enable_after' = {curr_tick + delay}
    /\ enabled' = check_if_should_enable(enabled, enable_after', curr_tick)
    /\ enable_calls' = enable_calls + 1
    /\ first_enable' = IF enable_calls = 0 THEN {<<curr_tick, delay>>}
                       ELSE first_enable
    /\ UNCHANGED <<curr_tick, ticked, pc, strength, points, next_enemy,
                   enemies, kill_reports, last_damage, hits, ctor, probe, accrued, spent>>

\* enable(delay), at most MaxEnableCalls times in a run.
enable(delay) ==
    /\ enable_calls < MaxEnableCalls
    /\ enable_call(delay)

\* A direct call of check_if_should_enable().
check_gate ==
    /\ pc = "idle" /\ ~ticked
    /\ enabled' = check_if_should_enable(enabled, enable_after, curr_tick)
    /\ UNCHANGED <<curr_tick, ticked, pc, enable_after, strength, points,
                   next_enemy, enemies, kill_reports, last_damage, hits, ctor,
                   probe, enable_calls, first_enable, accrued, spent>>

(***************************************************************************)
(* EnemySpawnMgr.on_tick and the drain loop spawn_all                      *)
(***************************************************************************)
\* Variant: the gate opens only after enable_after (> for >=).
on_tick_late_gate ==
    /\ pc = "idle" /\ ~ticked
    /\ ticked' = TRUE
    /\ enabled' = (enabled \/ (enable_after # {} /\
                                 (\A a \in enable_after : curr_tick > a)))
    /\ IF ~enabled'
       THEN UNCHANGED <<pc, points, strength, accrued>>
       ELSE /\ points' = points + strength
            /\ accrued' = accrued + strength
            /\ strength' = strength + TickDrift
            /\ pc' = "drain"
    /\ last_damage' = "None"
    /\ UNCHANGED <<curr_tick, enable_after, next_enemy, enemies, kill_reports,
                   hits, ctor, probe, enable_calls, first_enable, spent>>

\* Variant: on_tick does not call check_if_should_enable.
on_tick_no_gate_check ==
    /\ pc = "idle" /\ ~ticked
    /\ ticked' = TRUE
    /\ enabled' = enabled
    /\ IF ~enabled'
       THEN UNCHANGED <<pc, points, strength, accrued>>
       ELSE /\ points' = points + strength
            /\ accrued' = accrued + strength
            /\ strength' = strength + TickDrift
            /\ pc' = "drain"
    /\ last_damage' = "None"
    /\ UNCHANGED <<curr_tick, enable_after, next_enemy, enemies, kill_reports,
                   hits, ctor, probe, enable_calls, first_enable, spent>>

\* Variant: on_tick does not call spawn_all.
on_tick_no_spawn_all ==
    /\ pc = "idle" /\ ~ticked
    /\ ticked' = TRUE
    /\ enabled' = check_if_should_enable(enabled, enable_after, curr_tick)
    /\ IF ~enabled'
       THEN UNCHANGED <<points, strength, accrued>>
       ELSE /\ points' = points + strength
            /\ accrued' = accrued + strength
            /\ strength' = strength + TickDrift
    /\ last_damage' = "None"
    /\ UNCHANGED <<curr_tick, pc, enable_after, next_enemy, enemies,
                   kill_reports, hits, ctor, probe, enable_calls, first_enable,
                   spent>>

\* Variant: no early return when not enabled.
on_tick_no_return ==
    /\ pc = "idle" /\ ~ticked
    /\ ticked' = TRUE
    /\ enabled' = check_if_should_enable(enabled, enable_after, curr_tick)
    /\ points' = points + strength
    /\ accrued' = accrued + strength
    /\ strength' = strength + TickDrift
    /\ pc' = "drain"
    /\ last_damage' = "None"
    /\ UNCHANGED <<curr_tick, enable_after, next_enemy, enemies, kill_reports,
                   hits, ctor, probe, enable_calls, first_enable, spent>>

\* Variant: the drift is applied before the accrual.
on_tick_drift_first ==
    /\ pc = "idle" /\ ~ticked
    /\ ticked' = TRUE
    /\ enabled' = check_if_should_enable(enabled, enable_after, curr_tick)
    /\ IF ~enabled'
       THEN UNCHANGED <<pc, points, strength, accrued>>
       ELSE /\ strength' = strength + TickDrift
            /\ points' = points + strength'
            /\ accrued' = accrued + strength'
            /\ pc' = "drain"
    /\ last_damage' = "None"
    /\ UNCHANGED <<curr_tick, enable_after, next_enemy, enemies, kill_reports,
                   hits, ctor, probe, enable_calls, first_enable, spent>>

\* on_tick up to the call of spawn_all: the gate check, the early return when
\* not enabled, the accrual and the drift.
on_tick ==
    /\ pc = "idle" /\ ~ticked
    /\ ticked' = TRUE
    /\ enabled' = check_if_should_enable(enabled, enable_after, curr_tick)
    /\ IF ~enabled'
       THEN UNCHANGED <<pc, points, strength, accrued>>
       ELSE /\ points' = points + strength
            /\ accrued' = accrued + strength
            /\ strength' = strength + TickDrift
            /\ pc' = "drain"
    /\ last_damage' = "None"
    /\ UNCHANGED <<curr_tick, enable_after, next_enemy, enemies, kill_reports,
                   hits, ctor, probe, enable_calls, first_enable, spent>>

\* Variant: the loop runs while any points are left.
spawn_all_continues_any_points(p, o) == p > 0

\* Variant: > for >=.
spawn_all_continues_strict(p, o) == p > get_cost(o)

\* The loop condition of spawn_all.
spawn_all_continues(p, o) == p >= get_cost(o)

\* The points left by spawn_from_obj(o).
spawn_from_obj_points(p, o) == p - get_cost(o)

RECURSIVE BagHealth(_)
\* Total max_hp of a bag of enemies.
BagHealth(B) ==
    IF BagToSet(B) = {} THEN 0
    ELSE LET e == CHOOSE x \in BagToSet(B) : TRUE
         IN  e.max_hp + BagHealth(B (-) SetToBag({e}))

\* Variant: the cost is read after the next encounter is decided.
spawn_from_obj_charges_next ==
    /\ pc = "drain"
    /\ spawn_all_continues(points, next_enemy)
    /\ BagCardinality(enemies (+) spawn(next_enemy)) <= MaxEnemies
    /\ enemies' = enemies (+) spawn(next_enemy)
    /\ spent' = spent + BagHealth(spawn(next_enemy))
    /\ next_enemy' \in decide_next_enemy(strength)
    /\ points' = spawn_from_obj_points(points, next_enemy')
    /\ UNCHANGED <<curr_tick, ticked, pc, enabled, enable_after, strength,
                   kill_reports, last_damage, hits, ctor, probe, enable_calls,
                   first_enable, accrued>>

\* One iteration of spawn_all: spawn_from_obj(self.next_enemy).
spawn_from_obj ==
    /\ pc = "drain"
    /\ spawn_all_continues(points, next_enemy)
    /\ BagCardinality(enemies (+) spawn(next_enemy)) <= MaxEnemies
    /\ enemies' = enemies (+) spawn(next_enemy)
    /\ spent' = spent + BagHealth(spawn(next_enemy))
    /\ points' = spawn_from_obj_points(points, next_enemy)
    /\ next_enemy' \in decide_next_enemy(strength)
    /\ UNCHANGED <<curr_tick, ticked, pc, enabled, enable_after, strength,
                   kill_reports, last_damage, hits, ctor, probe, enable_calls, first_enable, accrued>>

\* spawn_all's loop ends and on_tick returns.
spawn_all_exit ==
    /\ pc = "drain"
    /\ ~spawn_all_continues(points, next_enemy)
    /\ pc' = "idle"
    /\ UNCHANGED <<curr_tick, ticked, enabled, enable_after, strength, points,
                   next_enemy, enemies, kill_reports, last_damage, hits, ctor,
                   probe, enable_calls, first_enable, accrued, spent>>

(***************************************************************************)
(* EnemyWithHealth: damage and death; the kill report                      *)
(***************************************************************************)
\* Variant: every damage source counts as the player's.
is_damage_by_player_any(damage) == TRUE

is_damage_by_player(damage) == damage = "Bullet"

\* Variant: the bump is subtracted.
on_kill_enemy_subtracts(S, en, enemy) ==
    IF ~en THEN S ELSE S - (KillBase + (enemy.max_hp * 4) \div 10000)

\* Variant: the bump is computed from the current health, not max_hp.
on_kill_enemy_health(S, en, enemy) ==
    IF ~en THEN S ELSE S + KillBase + (enemy.health * 4) \div 10000

\* Variant: the `if not self.enabled: return` guard is missing.
on_kill_enemy_unguarded(S, en, enemy) ==
    S + KillBase + (enemy.max_hp * 4) \div 10000

\* EnemySpawnMgr.on_kill_enemy(enemy): the strength after the call.
on_kill_enemy(S, en, enemy) ==
    IF ~en THEN S ELSE S + KillBase + (enemy.max_hp * 4) \div 10000

\* check_dead's test round(self.health, 9) > 0: a fixed-point health h >= 1 is
\* at least 1/Unit > 5e-10 and rounds to a positive number; h <= 0 does not.
is_alive(h) == h > 0

\* Game.on_kill_enemy(enemy, bullet) reports the kill to the spawner.
game_on_kill_enemy(S, en, enemy) == on_kill_enemy(S, en, enemy)

\* Variant: a reported kill makes the spawner decide its next encounter anew.
hit_redecides(e, damage) ==
    LET hurt == [e EXCEPT !.health = @ - Unit]
        dead == ~is_alive(hurt.health)
        rest == enemies (-) SetToBag({e})
        reported == dead /\ is_damage_by_player(damage)
    IN  /\ pc = "idle" /\ ~ticked
        /\ hits < MaxHits
        /\ hits' = hits + 1
        /\ enemies' = IF dead THEN rest ELSE rest (+) SetToBag({hurt})
        /\ kill_reports' = IF reported THEN kill_reports + 1 ELSE kill_reports
        /\ strength' = IF reported THEN game_on_kill_enemy(strength, enabled, hurt)
                       ELSE strength
        /\ next_enemy' \in IF reported THEN decide_next_enemy(strength')
                            ELSE {next_enemy}
        /\ last_damage' = damage
        /\ UNCHANGED <<curr_tick, ticked, pc, enabled, enable_after, points,
                       ctor, probe, enable_calls, first_enable, accrued, spent>>

\* An enemy loses 1 health to `damage` and check_dead(damage) runs: a dead enemy
\* is removed from game.enemies (kill()); kill_by_player, which calls
\* game.on_kill_enemy, runs iff is_damage_by_player(damage).
hit(e, damage) ==
    LET hurt == [e EXCEPT !.health = @ - Unit]
        dead == ~is_alive(hurt.health)
        rest == enemies (-) SetToBag({e})
        reported == dead /\ is_damage_by_player(damage)
    IN  /\ pc = "idle" /\ ~ticked
        /\ hits < MaxHits
        /\ hits' = hits + 1
        /\ enemies' = IF dead THEN rest ELSE rest (+) SetToBag({hurt})
        /\ kill_reports' = IF reported THEN kill_reports + 1 ELSE kill_reports
        /\ strength' = IF reported THEN game_on_kill_enemy(strength, enabled, hurt)
                       ELSE strength
        /\ last_damage' = damage
        /\ UNCHANGED <<curr_tick, ticked, pc, enabled, enable_after, points,
                       next_enemy, ctor, probe, enable_calls, first_enable, accrued, spent>>

\* EnemyWithHealth.on_hit_by_bullet(bullet)
on_hit_by_bullet(e) == hit(e, "Bullet")

\* Damage from a source that is not a Bullet, then check_dead(source).
on_env_damage(e) == hit(e, "Env")

(***************************************************************************)
(* The frame loop                                                          *)
(***************************************************************************)
\* The body of Game.wait_for_next_frame: on_tick has run in this frame.
next_frame ==
    /\ pc = "idle" /\ ticked
    /\ curr_tick' = curr_tick + 1
    /\ ticked' = FALSE
    /\ UNCHANGED <<pc, enabled, enable_after, strength, points, next_enemy,
                   enemies, kill_reports, last_damage, hits, ctor, probe,
                   enable_calls, first_enable, accrued, spent>>

\* Game.wait_for_next_frame, for MaxTick frames.
wait_for_next_frame ==
    /\ curr_tick < MaxTick
    /\ next_frame

\* After Game._init_objects and EnemySpawnMgr.__init__(game, strength, enabled,
\* start_points): the immobile initial enemy is alive, the first encounter is
\* decided.
Init ==
    /\ ctor \in Ctors
    /\ points = ctor.start_points
    /\ strength = ctor.strength
    /\ enabled = ctor.enabled
    /\ enable_after = {}
    /\ next_enemy \in decide_next_enemy(strength)
    /\ curr_tick = 0
    /\ ticked = FALSE
    /\ pc = "idle"
    /\ enemies = SetToBag({EnemyWithHealth(Unit)})
    /\ kill_reports = 0
    /\ last_damage = "None"
    /\ hits = 0
    /\ enable_calls = 0
    /\ first_enable = {}
    /\ accrued = 0
    /\ spent = 0
    /\ probe = NoCall

Next ==
    \/ \E delay \in 0..MaxDelay : enable(delay)
    \/ check_gate
    \/ on_tick
    \/ spawn_from_obj
    \/ spawn_all_exit
    \/ \E e \in BagToSet(enemies) : on_hit_by_bullet(e)
    \/ \E e \in BagToSet(enemies) : on_env_damage(e)
    \/ wait_for_next_frame

Spec == Init /\ [][Next]_vars

\* The gate under repeated enable() calls (every Turret.__init__ calls
\* game.tutorial.place_turret()): the manager EnemySpawnMgr(game,
\* start_points=0.995), on which enable() may be called again while an
\* activation is pending or after it.
InitGate ==
    /\ Init
    /\ ctor = [strength |-> DefaultStrength, enabled |-> FALSE,
               start_points |-> 597000]

\* enable(delay), at most MaxGateEnableCalls times in a run.
enable_again(delay) ==
    /\ enable_calls < MaxGateEnableCalls
    /\ enable_call(delay)

NextGate ==
    \/ \E delay \in 0..MaxDelay : enable_again(delay)
    \/ check_gate
    \/ on_tick
    \/ spawn_from_obj
    \/ spawn_all_exit
    \/ \E e \in BagToSet(enemies) : on_hit_by_bullet(e)
    \/ \E e \in BagToSet(enemies) : on_env_damage(e)
    \/ wait_for_next_frame

SpecGate == InitGate /\ [][NextGate]_vars

(***************************************************************************)
(* The end-to-end scenario: EnemySpawnMgr(game, strength=0.01), enable(0)  *)
(* at tick 0, then on_tick() once per frame for MaxScenarioTicks frames,   *)
(* with no other update.                                                   *)
(***************************************************************************)
ScenarioStrength == 2 * DefaultStrength    \* strength=0.01

InitScenario ==
    /\ ctor = [strength |-> ScenarioStrength, enabled |-> FALSE,
               start_points |-> 0]
    /\ points = ctor.start_points
    /\ strength = ctor.strength
    /\ enabled = ctor.enabled
    /\ enable_after = {}
    /\ next_enemy \in decide_next_enemy(strength)
    /\ curr_tick = 0
    /\ ticked = FALSE
    /\ pc = "idle"
    /\ enemies = SetToBag({EnemyWithHealth(Unit)})
    /\ kill_reports = 0
    /\ last_damage = "None"
    /\ hits = 0
    /\ enable_calls = 0
    /\ first_enable = {}
    /\ accrued = 0
    /\ spent = 0
    /\ probe = NoCall

\* enable() with the default delay, before the first on_tick().
enable_at_start ==
    /\ curr_tick = 0 /\ enable_calls = 0
    /\ enable_call(0)

\* Game.wait_for_next_frame, for MaxScenarioTicks frames.
wait_for_next_frame_scenario ==
    /\ curr_tick < MaxScenarioTicks
    /\ next_frame

NextScenario ==
    \/ enable_at_start
    \/ on_tick
    \/ spawn_from_obj
    \/ spawn_all_exit
    \/ wait_for_next_frame_scenario

SpecScenario == InitScenario /\ [][NextScenario]_vars

(***************************************************************************)
(* The strategies on their own: decide_next_enemy, randomize and spawn     *)
(* called over a range of strengths, outside the frame loop.  `probe`      *)
(* records the call, its inputs and its result.                            *)
(***************************************************************************)
\* Strengths explored: 0.001, the default 0.005, 0.2 and the next value
\* above it, 0.25, the two values around 2.5/3.9, 0.9 and 1.0.
Strengths ==
    { 600, DefaultStrength, ClusterMinStrength, ClusterMinStrength + 1,
      150000, 384615, 384616, 540000, Unit }

InitStrategies ==
    /\ Init
    /\ ctor = [strength |-> DefaultStrength, enabled |-> FALSE,
               start_points |-> 0]

spawner_idle ==
    UNCHANGED <<curr_tick, ticked, pc, enabled, enable_after, strength, points,
                next_enemy, enemies, kill_reports, last_damage, hits, ctor,
                enable_calls, first_enable, accrued, spent>>

\* decide_next_enemy() at strength S with random.random() = u/Unit.
decide_next_enemy_call ==
    /\ probe = NoCall
    /\ \E S \in Strengths, u \in ChanceDraws :
         \E o \in decide_next_enemy_draw(S, u) :
            probe' = [op |-> "decide_next_enemy", S |-> S, u |-> u, o |-> o]
    /\ spawner_idle

\* SingleEnemySpawn.make_random(spawner) with spawner.strength = S.
SingleEnemySpawn_randomize_call ==
    /\ probe = NoCall
    /\ \E S \in Strengths :
         \E h \in SingleEnemySpawn_randomize(S) :
            probe' = [op |-> "SingleEnemySpawn.randomize", S |-> S,
                      o |-> SingleEnemySpawn(h)]
    /\ spawner_idle

\* ClusterEnemySpawn.make_random(spawner) with spawner.strength = S.
ClusterEnemySpawn_randomize_call ==
    /\ probe = NoCall
    /\ \E S \in Strengths :
         \E l \in ClusterEnemySpawn_randomize(S) :
            probe' = [op |-> "ClusterEnemySpawn.randomize", S |-> S,
                      o |-> ClusterEnemySpawn(l)]
    /\ spawner_idle

\* Directions Vec2.from_polar can be given exactly: <<c, s, q>> stands for an
\* angle whose cosine is c/q and sine s/q (0, 90, 180, 270 degrees and the
\* four angles of the 3-4-5 triangle).
Directions ==
    { <<1, 0, 1>>, <<0, 1, 1>>, <<-1, 0, 1>>, <<0, -1, 1>>,
      <<3, 4, 5>>, <<-4, 3, 5>>, <<-3, -4, 5>>, <<4, -3, 5>> }

\* random.uniform(250, 500) = 250 + 250 * r: the two ends and the middle.
DistanceDraws == {250, 375, 500}

\* Positions of the player explored.
PlayerPositions == { <<0, 0>>, <<300, 200>> }

\* Vec2.from_polar((distance, angle)): distance * (cos, sin).
from_polar(distance, dir) ==
    <<(distance * dir[1]) \div dir[3], (distance * dir[2]) \div dir[3]>>

\* Variant: `at += Vec2(self.player.pos)` is missing.
SingleEnemySpawn_spawn_no_offset(o, player_pos, distance, dir) ==
    LET at == from_polar(distance, dir)
    IN  <<[pos |-> at, health |-> o.health * Unit, max_hp |-> o.health * Unit]>>

\* SingleEnemySpawn.spawn with the draws `distance` and `dir`: the enemies it
\* creates, with their positions.
SingleEnemySpawn_spawn(o, player_pos, distance, dir) ==
    LET at == from_polar(distance, dir)
        pos == <<at[1] + player_pos[1], at[2] + player_pos[2]>>
    IN  <<[pos |-> pos, health |-> o.health * Unit, max_hp |-> o.health * Unit]>>

\* spawn() on a randomized SingleEnemySpawn.
SingleEnemySpawn_spawn_call ==
    /\ probe.op = "SingleEnemySpawn.randomize"
    /\ \E player_pos \in PlayerPositions, distance \in DistanceDraws,
          dir \in Directions :
            probe' = [op |-> "SingleEnemySpawn.spawn", S |-> probe.S,
                      o |-> probe.o, player_pos |-> player_pos,
                      distance |-> distance,
                      created |-> SingleEnemySpawn_spawn(probe.o, player_pos,
                                                         distance, dir)]
    /\ spawner_idle

\* random.uniform(a, b) = a + (b - a) * r where only the extremes matter: the
\* two ends of the range.
UniformEnds(a, b) == {a, b}

\* util.uniform_from_mean(mean, size)
uniform_from_mean(mean, size) == UniformEnds(mean - size, mean + size)

\* ClusterEnemySpawn.spawn: mean_distance = uniform(250, 500) and
\* distance_variation = uniform(70, 170), the ends and a value between.
MeanDistanceDraws == {250, 300, 500}
DistanceVariationDraws == {70, 120, 170}

\* Variant: a first sample below 250 is kept.
ClusterMemberDistance_no_resample(mean_distance, distance_variation) ==
    { [first |-> d, distance |-> d] :
        d \in uniform_from_mean(mean_distance, distance_variation) }

\* One member's distance in ClusterEnemySpawn.spawn: the first sample, and
\* the distance used (resampled when the first sample is below 250).
ClusterMemberDistance(mean_distance, distance_variation) ==
    UNION { IF d < 250
            THEN { [first |-> d, distance |-> r] :
                     r \in UniformEnds(250, mean_distance + distance_variation) }
            ELSE { [first |-> d, distance |-> d] }
          : d \in uniform_from_mean(mean_distance, distance_variation) }

\* ClusterEnemySpawn.spawn: the lists of enemies it can create, one per entry
\* of enemy_health_list, each with the distance it is placed at.
ClusterEnemySpawn_spawn(o, mean_distance, distance_variation) ==
    LET l == o.enemy_health_list
    IN  { [i \in 1..Len(l) |->
             [health |-> l[i], max_hp |-> l[i], first |-> ds[i].first,
              distance |-> ds[i].distance]] :
          ds \in [1..Len(l) ->
                   ClusterMemberDistance(mean_distance, distance_variation)] }

\* spawn() on a randomized ClusterEnemySpawn.
ClusterEnemySpawn_spawn_call ==
    /\ probe.op = "ClusterEnemySpawn.randomize"
    /\ \E mean_distance \in MeanDistanceDraws,
          distance_variation \in DistanceVariationDraws :
         \E created \in ClusterEnemySpawn_spawn(probe.o, mean_distance,
                                                distance_variation) :
            probe' = [op |-> "ClusterEnemySpawn.spawn", S |-> probe.S,
                      o |-> probe.o, mean_distance |-> mean_distance,
                      distance_variation |-> distance_variation,
                      created |-> created]
    /\ spawner_idle

NextStrategies ==
    \/ decide_next_enemy_call
    \/ SingleEnemySpawn_randomize_call
    \/ ClusterEnemySpawn_randomize_call
    \/ SingleEnemySpawn_spawn_call
    \/ ClusterEnemySpawn_spawn_call

SpecStrategies == InitStrategies /\ [][NextStrategies]_vars

(***************************************************************************)
(* uses_game.py: UsesGame.  Values are strings: "None", the plain game     *)
(* objects of Games, and UsesGame instances "ug_<game>" whose attribute    *)
(* `game` is <game>.  An instance under test is the record                 *)
(*   cls_game   the class attribute `game` (None unless a subclass sets it)*)
(*   inst_game  the instance attribute `game`, "Unset" while it has none   *)
(*   raised     the last call raised RuntimeError                          *)
(* together with the history of the last call: op, arg, strict, the        *)
(* method_name of the message, prev_inst and prev (inst_game and self.game *)
(* before the call) and calls, the number of set_game calls so far.        *)
(***************************************************************************)
Games == {"g1", "g2"}
UsesGames == {"ug_None", "ug_g1", "ug_g2"}
GameArgs == {"None"} \cup Games \cup UsesGames

\* isinstance(game, UsesGame)
isinstance_UsesGame(v) == v \in UsesGames

\* v.game for a UsesGame v
game_of(v) ==
    CASE v = "ug_None" -> "None"
      [] v = "ug_g1" -> "g1"
      [] v = "ug_g2" -> "g2"

\* bool(v): None is false, plain objects and UsesGame instances are true.
truthy(v) == v # "None"

\* self.game: the instance attribute if there is one, else the class's.
self_game(obj) ==
    IF obj.inst_game # "Unset" THEN obj.inst_game ELSE obj.cls_game

\* Variant: `self.game = self.game or game` (the old game has priority).
set_game_old_has_prio(obj, game, strict, method_name) ==
    LET g == IF isinstance_UsesGame(game) THEN game_of(game) ELSE game
        new == IF truthy(self_game(obj)) THEN self_game(obj) ELSE g
    IN  [obj EXCEPT !.inst_game = new,
                    !.raised = strict /\ new = "None",
                    !.method_name = method_name]

\* Variant: the check ignores `strict`.
set_game_always_strict(obj, game, strict, method_name) ==
    LET g == IF isinstance_UsesGame(game) THEN game_of(game) ELSE game
        new == IF truthy(g) THEN g ELSE self_game(obj)
    IN  [obj EXCEPT !.inst_game = new,
                    !.raised = (new = "None"),
                    !.method_name = method_name]

\* Variant: `self.game = game` (no fallback to the game already there).
set_game_no_fallback(obj, game, strict, method_name) ==
    LET g == IF isinstance_UsesGame(game) THEN game_of(game) ELSE game
    IN  [obj EXCEPT !.inst_game = g,
                    !.raised = strict /\ g = "None",
                    !.method_name = method_name]

\* UsesGame.set_game(game, strict, method_name): the instance after the call.
set_game(obj, game, strict, method_name) ==
    LET g == IF isinstance_UsesGame(game) THEN game_of(game) ELSE game
        new == IF truthy(g) THEN g ELSE self_game(obj)
    IN  [obj EXCEPT !.inst_game = new,
                    !.raised = strict /\ new = "None",
                    !.method_name = method_name]

\* UsesGame.__init__(game, strict)
UsesGame_init(obj, game, strict) == set_game(obj, game, strict, "__init__")

\* Sub.__new__(Sub) for a class whose attribute `game` is cls_game.
UsesGame_new(cls_game) ==
    [op |-> "__new__", cls_game |-> cls_game, inst_game |-> "Unset",
     raised |-> FALSE, method_name |-> "", arg |-> "None", strict |-> FALSE,
     prev_inst |-> "Unset", prev |-> cls_game, calls |-> 0]

\* The history fields of a call op(arg, strict) made on obj.
called(obj, op, arg, strict) ==
    [obj EXCEPT !.op = op, !.arg = arg, !.strict = strict,
                !.prev_inst = obj.inst_game, !.prev = self_game(obj),
                !.calls = obj.calls + 1]

\* inst = Sub.__new__(Sub)
new_call ==
    /\ probe = NoCall
    /\ \E cls_game \in {"None"} \cup Games : probe' = UsesGame_new(cls_game)
    /\ spawner_idle

\* inst.game = v, assigned directly.
assign_game_call ==
    /\ probe.op = "__new__"
    /\ probe.inst_game = "Unset"
    /\ \E v \in {"None"} \cup Games : probe' = [probe EXCEPT !.inst_game = v]
    /\ spawner_idle

\* inst.set_game(game, strict)
set_game_call ==
    /\ probe.op \in {"__new__", "set_game", "__init__"}
    /\ probe.calls < MaxSetGameCalls
    /\ \E game \in GameArgs, strict \in BOOLEAN :
          probe' = set_game(called(probe, "set_game", game, strict),
                            game, strict, "set_game")
    /\ spawner_idle

\* Sub(game, strict): __new__ followed by __init__.
init_call ==
    /\ probe = NoCall
    /\ \E cls_game \in {"None"} \cup Games, game \in GameArgs,
          strict \in BOOLEAN :
          probe' = UsesGame_init(called(UsesGame_new(cls_game), "__init__",
                                        game, strict), game, strict)
    /\ spawner_idle

NextUsesGame ==
    \/ new_call
    \/ assign_game_call
    \/ set_game_call
    \/ init_call

SpecUsesGame == InitStrategies /\ [][NextUsesGame]_vars

(***************************************************************************)
(* sprite_bases.py: GroupMemberSprite, SizedSprite, PositionedSprite.      *)
(* Attribute values are strings, "None" for None; an instance attribute    *)
(* that was never assigned is "Unset" and the lookup self.x then gives the *)
(* class attribute cls_x.  A sprite is the UsesGame record extended with   *)
(*   cls_in_root, cls_in_display, cls_size, cls_pos   class attributes     *)
(*   in_root, in_display, size, pos                   instance attributes  *)
(*   groups      the groups the sprite is a member of                      *)
(*   error       "" or the attribute a raised TypeError names              *)
(* and with the arguments of the call: arg_in_root, arg_in_display,        *)
(* arg_groups, arg_size, arg_pos, and the instance attributes assigned     *)
(* before the call: preset_size, preset_pos.                               *)
(***************************************************************************)
Flags == {"None", "True", "False"}
PassedGroups == {"ga", "gb"}

\* util.option(v, default)
option(v, default) == IF v = "None" THEN default ELSE v

\* self.x: the instance attribute if assigned, else the class attribute.
attr(inst, cls) == IF inst # "Unset" THEN inst ELSE cls

\* The truth value of a flag in `if self.in_root:`.
flag_true(v) == v = "True"

\* new(klass) for a class with the given attributes; `presets` are the
\* instance attributes assigned before __init__.
Sprite_new(klass, cls, presets) ==
    [op |-> "__new__", klass |-> klass,
     cls_game |-> "None", inst_game |-> "Unset", raised |-> FALSE,
     method_name |-> "",
     cls_in_root |-> cls.in_root, cls_in_display |-> cls.in_display,
     cls_size |-> cls.size, cls_pos |-> cls.pos,
     in_root |-> "Unset", in_display |-> "Unset",
     size |-> presets.size, pos |-> presets.pos,
     groups |-> {}, error |-> "",
     arg |-> "None", arg_in_root |-> "None", arg_in_display |-> "None",
     arg_groups |-> {}, arg_size |-> "None", arg_pos |-> "None",
     preset_size |-> presets.size, preset_pos |-> presets.pos]

\* Variant: in_display does not follow in_root when still None.
set_group_flags_no_follow(obj, in_root, in_display) ==
    [obj EXCEPT !.in_root = option(in_root, attr(obj.in_root, obj.cls_in_root)),
                !.in_display = option(in_display,
                                      attr(obj.in_display, obj.cls_in_display))]

\* GroupMemberSprite._set_group_flags(in_root, in_display)
set_group_flags(obj, in_root, in_display) ==
    LET r == option(in_root, attr(obj.in_root, obj.cls_in_root))
        d == option(in_display, attr(obj.in_display, obj.cls_in_display))
    IN  [obj EXCEPT !.in_root = r,
                    !.in_display = IF d = "None" THEN r ELSE d]

\* Variant: display_group is added whenever root_group is.
get_extra_groups_display_with_root(obj) ==
    IF flag_true(obj.in_root) THEN {"root_group", "display_group"} ELSE {}

\* GroupMemberSprite._get_extra_groups()
get_extra_groups(obj) ==
    (IF flag_true(obj.in_root) THEN {"root_group"} ELSE {})
      \cup (IF flag_true(obj.in_display) THEN {"display_group"} ELSE {})

\* GamePgSprite.__init__(game, *groups): UsesGame.__init__(self, game), then
\* pg.sprite.Sprite.__init__(self, *groups), which adds the sprite to each.
GamePgSprite_init(obj, game, groups) ==
    LET o == UsesGame_init(obj, game, TRUE)
    IN  IF o.raised THEN o ELSE [o EXCEPT !.groups = @ \cup groups]

\* GroupMemberSprite.__init__(game, *groups, in_root, in_display)
GroupMemberSprite_init(obj, game, groups, in_root, in_display) ==
    LET o1 == set_game(obj, game, TRUE, "__init__")
        o2 == set_group_flags(o1, in_root, in_display)
    IN  IF o1.raised THEN o1
        ELSE GamePgSprite_init(o2, "None", get_extra_groups(o2) \cup groups)

\* Variant: a preset size has priority over the argument.
SizedSprite_init_preset_first(obj, game, groups, size, in_root, in_display) ==
    LET o == GroupMemberSprite_init(obj, game, groups, in_root, in_display)
        sz == option(attr(o.size, o.cls_size), size)
    IN  IF o.raised THEN o
        ELSE [o EXCEPT !.size = sz,
                       !.error = IF sz = "None" THEN "size" ELSE ""]

\* SizedSprite.__init__(game, *groups, size, in_root, in_display), through
\* DrawableSprite.__init__ (surf and rect are not modelled).  A missing size
\* raises TypeError("size must be passed to __init__ or set as a class
\* attribute").
SizedSprite_init(obj, game, groups, size, in_root, in_display) ==
    LET o == GroupMemberSprite_init(obj, game, groups, in_root, in_display)
        sz == option(size, attr(o.size, o.cls_size))
    IN  IF o.raised THEN o
        ELSE [o EXCEPT !.size = sz,
                       !.error = IF sz = "None" THEN "size" ELSE ""]

\* Variant: the missing-pos TypeError is not raised.
PositionedSprite_init_no_check(obj, game, groups, size, pos, in_root,
                               in_display) ==
    LET o == SizedSprite_init(obj, game, groups, size, in_root, in_display)
    IN  IF o.raised \/ o.error # "" THEN o
        ELSE [o EXCEPT !.pos = option(pos, attr(o.pos, o.cls_pos))]

\* PositionedSprite.__init__(game, *groups, size, pos, in_root, in_display).
\* A missing pos raises TypeError("pos must be passed to __init__ or set as a
\* class attribute").
PositionedSprite_init(obj, game, groups, size, pos, in_root, in_display) ==
    LET o == SizedSprite_init(obj, game, groups, size, in_root, in_display)
        ps == option(pos, attr(o.pos, o.cls_pos))
    IN  IF o.raised \/ o.error # "" THEN o
        ELSE [o EXCEPT !.pos = ps,
                       !.error = IF ps = "None" THEN "pos" ELSE ""]

\* The arguments of a call recorded on the sprite.
sprite_called(obj, op, game, groups, in_root, in_display, size, pos) ==
    [obj EXCEPT !.op = op, !.arg = game, !.arg_groups = groups,
                !.arg_in_root = in_root, !.arg_in_display = in_display,
                !.arg_size = size, !.arg_pos = pos]

NoPresets == [size |-> "Unset", pos |-> "Unset"]

\* s = new(Sub); s._set_group_flags(in_root, in_display)
set_group_flags_call ==
    /\ probe = NoCall
    /\ \E cls_in_root \in Flags, cls_in_display \in Flags,
          in_root \in Flags, in_display \in Flags :
         LET cls == [in_root |-> cls_in_root, in_display |-> cls_in_display,
                     size |-> "None", pos |-> "None"]
             obj == sprite_called(Sprite_new("GroupMemberSprite", cls, NoPresets),
                                  "_set_group_flags", "None", {}, in_root,
                                  in_display, "None", "None")
         IN  probe' = set_group_flags(obj, in_root, in_display)
    /\ spawner_idle

\* new(Sub).__init__(game, *groups, in_root=..., in_display=...)
GroupMemberSprite_init_call ==
    /\ probe = NoCall
    /\ \E cls_in_root \in {"True", "False"}, cls_in_display \in Flags,
          game \in {"None", "g1"}, groups \in SUBSET PassedGroups,
          in_root \in Flags, in_display \in Flags :
         LET cls == [in_root |-> cls_in_root, in_display |-> cls_in_display,
                     size |-> "None", pos |-> "None"]
             obj == sprite_called(Sprite_new("GroupMemberSprite", cls, NoPresets),
                                  "GroupMemberSprite.__init__", game, groups,
                                  in_root, in_display, "None", "None")
         IN  probe' = GroupMemberSprite_init(obj, game, groups, in_root,
                                             in_display)
    /\ spawner_idle

\* SizedSprite construction with size preset on the class (s1), on the
\* instance (s2), passed (s3), or any combination.
SizedSprite_init_call ==
    /\ probe = NoCall
    /\ \E cls_size \in {"None", "s1"}, inst_size \in {"Unset", "s2"},
          size \in {"None", "s3"}, in_root \in {"None", "False"},
          groups \in {{}, {"ga"}} :
         LET cls == [in_root |-> "True", in_display |-> "None",
                     size |-> cls_size, pos |-> "None"]
             obj == sprite_called(
                      Sprite_new("SizedSprite", cls,
                                 [size |-> inst_size, pos |-> "Unset"]),
                      "SizedSprite.__init__", "g1", groups, in_root, "None",
                      size, "None")
         IN  probe' = SizedSprite_init(obj, "g1", groups, size, in_root, "None")
    /\ spawner_idle

\* PositionedSprite construction, size and pos each preset on the class, on
\* the instance, passed, or any combination.
PositionedSprite_init_call ==
    /\ probe = NoCall
    /\ \E cls_size \in {"None", "s1"}, inst_size \in {"Unset", "s2"},
          size \in {"None", "s3"}, cls_pos \in {"None", "p1"},
          inst_pos \in {"Unset", "p2"}, pos \in {"None", "p3"} :
         LET cls == [in_root |-> "True", in_display |-> "None",
                     size |-> cls_size, pos |-> cls_pos]
             obj == sprite_called(
                      Sprite_new("PositionedSprite", cls,
                                 [size |-> inst_size, pos |-> inst_pos]),
                      "PositionedSprite.__init__", "g1", {}, "None", "None",
                      size, pos)
         IN  probe' = PositionedSprite_init(obj, "g1", {}, size, pos, "None",
                                            "None")
    /\ spawner_idle

NextSprites ==
    \/ set_group_flags_call
    \/ GroupMemberSprite_init_call
    \/ SizedSprite_init_call
    \/ PositionedSprite_init_call

SpecSprites == InitStrategies /\ [][NextSprites]_vars

(***************************************************************************)
(* sprite_bases.py: RectUpdatingSprite.  The sprite record gets            *)
(*   surf, rect  the attributes self.surf and self.rect ("None" for None); *)
(*               a rect is named by where it came from                     *)
(*   center      rect.center of the sprite's rect                          *)
(*   ret         the value the last create_rect() returned                 *)
(*   calls       the calls of pos.setter, set_pos, create_rect and         *)
(*               update_rect made on the sprite, in order, each with       *)
(*               self.rect and self._pos as they were when it was entered  *)
(*   arg_surf, arg_rect, preset_rect   inputs of the construction          *)
(* In this class `pos` is a property over `_pos`: the field pos holds      *)
(* self._pos, whose class attribute is None.                               *)
(***************************************************************************)
MaxSetPosCalls == 2

\* The entry of a call fn(arg) in obj.calls.
CallEntry(obj, fn, arg) ==
    [fn |-> fn, arg |-> arg, rect |-> obj.rect, pos |-> obj.pos]

\* new(klass) for RectUpdatingSprite subclasses; presets.rect is an instance
\* attribute assigned before __init__.
RectSprite_new(cls, presets) ==
    Sprite_new("RectUpdatingSprite", cls, presets)
      @@ [surf |-> "None", rect |-> presets.rect, center |-> "c0",
          ret |-> "None", calls |-> <<>>, arg_surf |-> "None",
          arg_rect |-> "None", preset_rect |-> presets.rect]

\* RectUpdatingSprite.update_rect(): self.rect.center = self.pos
update_rect(obj) ==
    [obj EXCEPT !.center = obj.pos,
                !.calls = Append(@, CallEntry(obj, "update_rect", "None"))]

\* RectUpdatingSprite.create_rect(): self.surf.get_rect(), a new rect with
\* its top left corner at the origin.
create_rect(obj) ==
    [obj EXCEPT !.ret = "r_created",
                !.calls = Append(@, CallEntry(obj, "create_rect", "None"))]

\* Variant: update_rect() runs before _pos is stored.
set_pos_update_first(obj, value) ==
    LET o == [obj EXCEPT
                !.calls = Append(@, CallEntry(obj, "set_pos", value))]
        u == IF o.rect # "None" THEN update_rect(o) ELSE o
    IN  [u EXCEPT !.pos = value]

\* RectUpdatingSprite.set_pos(value)
set_pos(obj, value) ==
    LET o == [obj EXCEPT
                !.pos = value,
                !.calls = Append(@, CallEntry(obj, "set_pos", value))]
    IN  IF o.rect # "None" THEN update_rect(o) ELSE o

\* The setter of the property `pos`: self.set_pos(value)
pos_setter(obj, value) ==
    set_pos([obj EXCEPT
               !.calls = Append(@, CallEntry(obj, "pos.setter", value))],
            value)

\* DrawableSprite.__init__(game, *groups, surf, rect, in_root, in_display)
DrawableSprite_init(obj, game, groups, surf, rect, in_root, in_display) ==
    LET o == GroupMemberSprite_init(obj, game, groups, in_root, in_display)
    IN  IF o.raised THEN o
        ELSE [o EXCEPT !.surf = IF surf # "None" THEN surf ELSE @,
                       !.rect = IF rect # "None" THEN rect ELSE @]

\* The one element of a singleton set: Only({F(x) : x \in {e}}) is F(e) with
\* e evaluated once.
Only(S) == CHOOSE x \in S : TRUE

\* SizedSprite.__init__ after super().__init__() returned d.
SizedSprite_init_size(d, size) ==
    LET sz == option(size, attr(d.size, d.cls_size))
    IN  IF d.raised THEN d
        ELSE [d EXCEPT !.size = sz,
                       !.error = IF sz = "None" THEN "size" ELSE ""]

\* PositionedSprite.__init__ after super().__init__() returned s.  In a
\* RectUpdatingSprite `self.pos = option(pos, self.pos)` goes through the
\* property.
PositionedSprite_init_pos(s, pos) ==
    LET p == pos_setter(s, option(pos, s.pos))
    IN  IF s.raised \/ s.error # "" THEN s
        ELSE [p EXCEPT !.error = IF p.pos = "None" THEN "pos" ELSE ""]

\* SurfaceMakingSprite.__init__ after super().__init__() returned e;
\* make_surface() is that of CommonSprite, which returns a new surface.
SurfaceMakingSprite_init_surf(e) ==
    IF e.raised \/ e.error # "" THEN e
    ELSE [e EXCEPT !.surf = IF @ = "None" THEN "sf_made" ELSE @]

\* SurfaceMakingSprite.__init__(game, *groups, surf, rect, size, pos, in_root,
\* in_display) of a RectUpdatingSprite subclass.
SurfaceMakingSprite_init(obj, game, groups, surf, rect, size, pos, in_root, in_display) ==
    Only({ SurfaceMakingSprite_init_surf(e) :
             e \in { PositionedSprite_init_pos(s, pos) :
                       s \in { SizedSprite_init_size(d, size) :
                                 d \in {DrawableSprite_init(obj, game, groups,
                                                            surf, rect, in_root,
                                                            in_display)} } } })

\* Variant: the rect is created even when one is present.
RectUpdatingSprite_init_rect_always_creates(m) ==
    LET c == create_rect(m)
    IN  IF m.raised \/ m.error # "" THEN m
        ELSE update_rect([c EXCEPT !.rect = c.ret, !.center = "c_surf"])

\* RectUpdatingSprite.__init__ after super().__init__() returned m.  The rect
\* create_rect() returns is centred on the middle of the surface until
\* update_rect() moves it.
RectUpdatingSprite_init_rect(m) ==
    LET c == create_rect(m)
    IN  IF m.raised \/ m.error # "" THEN m
        ELSE IF m.rect = "None"
        THEN update_rect([c EXCEPT !.rect = c.ret, !.center = "c_surf"])
        ELSE m

\* RectUpdatingSprite.__init__(game, *groups, surf, rect, size, pos, in_root,
\* in_display)
RectUpdatingSprite_init(obj, game, groups, surf, rect, size, pos, in_root, in_display) ==
    Only({ RectUpdatingSprite_init_rect(m) :
             m \in {SurfaceMakingSprite_init(obj, game, groups, surf, rect,
                                             size, pos, in_root, in_display)} })

\* The class of the sprites under test: in_root True, size set on the class.
RectSpriteCls ==
    [in_root |-> "True", in_display |-> "None", size |-> "s1", pos |-> "None"]

\* inst = new(Sub), and optionally inst.rect = rect, before any __init__.
RectSprite_new_call ==
    /\ probe = NoCall
    /\ \E preset_rect \in {"None", "r_preset"} :
         probe' = RectSprite_new(RectSpriteCls,
                                 [size |-> "Unset", pos |-> "None",
                                  rect |-> preset_rect])
    /\ spawner_idle

\* Sub(game, surf=..., rect=..., size=..., pos=...): __new__, optionally
\* inst.rect = preset, then __init__.
RectUpdatingSprite_init_call ==
    /\ probe = NoCall
    /\ \E preset_rect \in {"None", "r_preset"}, rect \in {"None", "r_arg"},
          surf \in {"None", "sf_arg"}, size \in {"None", "s3"},
          pos \in {"None", "p3"}, game \in {"None", "g1"} :
         LET new == RectSprite_new(RectSpriteCls,
                                   [size |-> "Unset", pos |-> "None",
                                    rect |-> preset_rect])
             obj == [sprite_called(new, "RectUpdatingSprite.__init__", game,
                                   {}, "None", "None", size, pos)
                       EXCEPT !.arg_surf = surf, !.arg_rect = rect]
         IN  \E o \in {obj} :
               probe' = RectUpdatingSprite_init(o, game, {}, surf, rect, size,
                                                pos, "None", "None")
    /\ spawner_idle

\* The number of set_pos() calls made on the sprite after its construction.
SetPosCalls(obj) ==
    Cardinality({i \in 1..Len(obj.calls) :
                   obj.calls[i].fn = "set_pos" /\ obj.calls[i].arg # "None"
                     /\ obj.calls[i].arg # "p3"})

\* A sprite that positions can be assigned to: constructed without error,
\* or fresh from new().
RectSpriteUsable ==
    /\ probe # NoCall
    /\ probe.klass = "RectUpdatingSprite"
    /\ ~probe.raised
    /\ probe.error = ""
    /\ SetPosCalls(probe) < MaxSetPosCalls

\* inst.set_pos(value)
set_pos_call ==
    /\ RectSpriteUsable
    /\ \E value \in {"p4", "p5"} :
         probe' = set_pos([probe EXCEPT !.op = "set_pos"], value)
    /\ spawner_idle

\* inst.pos = value
pos_assign_call ==
    /\ RectSpriteUsable
    /\ \E value \in {"p4", "p5"} :
         probe' = pos_setter([probe EXCEPT !.op = "pos.setter"], value)
    /\ spawner_idle

NextRect ==
    \/ RectSprite_new_call
    \/ RectUpdatingSprite_init_call
    \/ set_pos_call
    \/ pos_assign_call

SpecRect == InitStrategies /\ [][NextRect]_vars

(***************************************************************************)
(* enemy.py, bullet.py: bullets against enemies with health.  A health is  *)
(* the pair <<whole, frac>>, the float whole + frac * 1e-10 with           *)
(* 0 <= frac < 10^10, so that the rounding to 9 decimals in check_dead is  *)
(* computed as the code computes it; subtracting 1 keeps frac.  The world  *)
(* under test is the record                                                *)
(*   enemy     per enemy: health, max_hp, in_groups (alive() of the        *)
(*             sprite; game.enemies holds exactly these) and hits, the     *)
(*             number of on_hit_by_bullet calls made on it                 *)
(*   bullet    per bullet: in_groups, dist (the number of moves of         *)
(*             BULLET_SPEED left to its target), hit (the enemies whose    *)
(*             on_hit_by_bullet it called), moves and updates              *)
(*   reported  the enemies game.on_kill_enemy was called for, in order     *)
(*   updated, collided   the bullet and the enemy of the last update       *)
(***************************************************************************)
MaxWholeHealth == 2
MaxBulletDist == 1
HalfNano == 5

EnemyIds == {"e1", "e2"}
BulletIds == {"b1", "b2", "b3"}

\* Fractions drawn: none, 3e-10, 8e-10 and 0.2.
FracDraws == {0, 3, 8, 2000000000}
HealthDraws == (0..MaxWholeHealth) \X FracDraws

\* round(health, 9) > 0: the health is above 0.5e-9 (a health of exactly
\* 0.5e-9 is never drawn).
round9_positive(h) == h[1] > 0 \/ (h[1] = 0 /\ h[2] > HalfNano)

\* health > 0
health_positive(h) == h[1] > 0 \/ (h[1] = 0 /\ h[2] > 0)

\* pg.sprite.Sprite.kill(): the sprite leaves all its groups.
kill_enemy(w, e) == [w EXCEPT !.enemy[e].in_groups = FALSE]
kill_bullet(w, b) == [w EXCEPT !.bullet[b].in_groups = FALSE]

\* EnemyWithHealth.kill_by_player(bullet)
kill_by_player(w, e, b) ==
    kill_enemy([w EXCEPT !.reported = Append(@, e)], e)

\* Variant: the health is not rounded, `if self.health > 0`.
check_dead_exact(w, e, b) ==
    IF health_positive(w.enemy[e].health) THEN w
    ELSE IF is_damage_by_player("Bullet") THEN kill_by_player(w, e, b)
    ELSE kill_enemy(w, e)

\* EnemyWithHealth.check_dead(damage_source), the source being bullet b.
check_dead(w, e, b) ==
    IF round9_positive(w.enemy[e].health) THEN w
    ELSE IF is_damage_by_player("Bullet") THEN kill_by_player(w, e, b)
    ELSE kill_enemy(w, e)

\* EnemyWithHealth.on_hit_by_bullet(bullet)
EnemyWithHealth_on_hit_by_bullet(w, e, b) ==
    check_dead([w EXCEPT !.enemy[e].health[1] = @ - 1,
                         !.enemy[e].hits = @ + 1], e, b)

\* Variant: the bullet is not removed after a hit.
Bullet_on_hit_enemy_no_kill(w, b, e) ==
    [EnemyWithHealth_on_hit_by_bullet(w, e, b)
       EXCEPT !.bullet[b].hit = Append(@, e)]

\* Bullet.on_hit_enemy(enemy)
Bullet_on_hit_enemy(w, b, e) ==
    kill_bullet([EnemyWithHealth_on_hit_by_bullet(w, e, b)
                   EXCEPT !.bullet[b].hit = Append(@, e)], b)

\* Bullet.update() with `collided` the result of spritecollideany(self,
\* game.enemies), "None" or an enemy of the group.  A bullet at its target
\* is killed; move_towards then leaves it where it is.
Bullet_update(w, b, collided) ==
    LET u == [w EXCEPT !.updated = b, !.collided = collided,
                       !.bullet[b].updates = @ + 1]
        at_target == u.bullet[b].dist = 0
        k == IF at_target THEN kill_bullet(u, b) ELSE u
    IN  IF collided # "None" THEN Bullet_on_hit_enemy(u, b, collided)
        ELSE [k EXCEPT !.bullet[b].dist = IF at_target THEN 0 ELSE @ - 1,
                       !.bullet[b].moves = IF at_target THEN @ ELSE @ + 1]

\* The game with two enemies alive and three bullets fired.
Combat_new(h1, h2, dist) ==
    [op |-> "combat",
     enemy |-> [e \in EnemyIds |->
                  LET h == IF e = "e1" THEN h1 ELSE h2
                  IN  [health |-> h, max_hp |-> h, in_groups |-> TRUE,
                       hits |-> 0]],
     bullet |-> [b \in BulletIds |->
                   [in_groups |-> TRUE, dist |-> dist, hit |-> <<>>,
                    moves |-> 0, updates |-> 0]],
     reported |-> <<>>, updated |-> "None", collided |-> "None"]

\* EnemyWithHealth(game, pos, health) twice and Bullet(game, pos, target)
\* three times.
Combat_new_call ==
    /\ probe = NoCall
    /\ \E h1 \in HealthDraws, h2 \in {<<1, 0>>, <<1, 3>>},
          dist \in 0..MaxBulletDist :
         probe' = Combat_new(h1, h2, dist)
    /\ spawner_idle

\* game.bullets.update(): update() of a bullet of the group.  The bullet
\* collides with no enemy or with some enemies of game.enemies, of which
\* spritecollideany returns one.
Bullet_update_call ==
    /\ probe.op = "combat"
    /\ \E b \in BulletIds :
         /\ probe.bullet[b].in_groups
         /\ \E collided \in {"None"} \cup
                             {e \in EnemyIds : probe.enemy[e].in_groups} :
              probe' = Bullet_update(probe, b, collided)
    /\ spawner_idle

NextCombat ==
    \/ Combat_new_call
    \/ Bullet_update_call

SpecCombat == InitStrategies /\ [][NextCombat]_vars

(***************************************************************************)
(* turret.py, pg_util.nearest_of_group: one turret at the origin and the   *)
(* enemies of game.enemies on the x axis.  Lengths are in half pixels: an  *)
(* enemy at x has pos.x = x / 2 and, its rect holding whole pixels,        *)
(* rect.centerx = x \div 2 pixels.  The record under test holds            *)
(*   interval, shot_on_tick ({} for None)   the turret's attributes        *)
(*   curr_tick, updated    game.curr_tick; update() has run in this tick   *)
(*   group       game.enemies, in the order of group.sprites(), as seen by *)
(*               the last update()                                         *)
(*   fired       the targets of the bullets the last update() created      *)
(*   shots       the number of bullets created so far                      *)
(***************************************************************************)
MaxTurretTick == 50
TURRET_INTERVAL == 45
TURRET_RANGE == 140

Intervals == {30, TURRET_INTERVAL}
EnemyXs == {200, 201, 281}
EnemyGroups == UNION { [1..n -> EnemyXs] : n \in 0..2 }

\* Squared distances from the turret, in half pixels squared: to the enemy's
\* pos, and to its rect.center.
pos_distance_squared(x) == x * x
center_distance_squared(x) == (2 * (x \div 2)) * (2 * (x \div 2))

\* pg_util.nearest_of_group(pos, group): the index of the first sprite of
\* the group at the least distance, 0 for None.
nearest_of_group(group) ==
    IF group = <<>> THEN 0
    ELSE CHOOSE i \in 1..Len(group) :
           /\ \A j \in 1..Len(group) :
                center_distance_squared(group[i])
                  <= center_distance_squared(group[j])
           /\ \A j \in 1..(i - 1) :
                center_distance_squared(group[j])
                  > center_distance_squared(group[i])

\* Variant: the cooldown is not checked.
can_shoot_no_cooldown(t) == TRUE

\* Turret.can_shoot()
can_shoot(t) ==
    \/ t.shot_on_tick = {}
    \/ \A s \in t.shot_on_tick : t.curr_tick >= s + t.interval

\* Turret.can_shoot_enemy(enemy)
can_shoot_enemy(x) ==
    pos_distance_squared(x) <= (2 * TURRET_RANGE) * (2 * TURRET_RANGE)

\* Turret.update() with game.enemies = group
Turret_update(t, group) ==
    LET u == [t EXCEPT !.group = group, !.fired = <<>>, !.updated = TRUE]
        target == nearest_of_group(group)
    IN  IF can_shoot(u) /\ target # 0 /\ can_shoot_enemy(group[target])
        THEN [u EXCEPT !.fired = <<group[target]>>,
                       !.shot_on_tick = {u.curr_tick},
                       !.shots = @ + 1]
        ELSE u

\* Turret(game, pos, interval=interval)
Turret_new(interval) ==
    [op |-> "turret", interval |-> interval, shot_on_tick |-> {},
     curr_tick |-> 0, updated |-> FALSE, group |-> <<>>, fired |-> <<>>,
     shots |-> 0]

Turret_new_call ==
    /\ probe = NoCall
    /\ \E interval \in Intervals : probe' = Turret_new(interval)
    /\ spawner_idle

\* Game.do_tick: root_group.update() updates the turret once per tick, with
\* whatever enemies are in game.enemies by then.
Turret_update_call ==
    /\ probe.op = "turret"
    /\ ~probe.updated
    /\ \E group \in EnemyGroups : probe' = Turret_update(probe, group)
    /\ spawner_idle

\* Game.wait_for_next_frame
Turret_next_frame ==
    /\ probe.op = "turret"
    /\ probe.updated
    /\ probe.curr_tick < MaxTurretTick
    /\ probe' = [probe EXCEPT !.curr_tick = @ + 1, !.updated = FALSE]
    /\ spawner_idle

NextTurret ==
    \/ Turret_new_call
    \/ Turret_update_call
    \/ Turret_next_frame

SpecTurret == InitStrategies /\ [][NextTurret]_vars

(***************************************************************************)
(* trigger_once.py: TriggerOnce and the decorator trigger_once.  The       *)
(* object under test is the record                                         *)
(*   via        "trigger_once" for the wrapper the decorator returns,      *)
(*              "TriggerOnce" for an instance used directly                *)
(*   triggered  the attribute of the TriggerOnce instance                  *)
(*   runs       the arguments of the runs of the wrapped body, in order    *)
(*   calls      the number of calls made                                   *)
(***************************************************************************)
MaxTriggerCalls == 4

TriggerArgs == {"a1", "a2", "a3"}

\* TriggerOnce.__init__(on_trigger)
TriggerOnce_init(via) ==
    [op |-> "trigger", via |-> via, triggered |-> FALSE, runs |-> <<>>,
     calls |-> 0]

\* TriggerOnce.trigger(*args): self.triggered = True; self.fn(*args)
trigger(obj, arg) ==
    [obj EXCEPT !.triggered = TRUE, !.runs = Append(@, arg),
                !.calls = @ + 1]

\* TriggerOnce.__call__(*args)
TriggerOnce_call(obj, arg) == trigger(obj, arg)

\* trigger_once(f): to_obj = TriggerOnce(f), and the wrapper `new` returned.
trigger_once(via) == TriggerOnce_init(via)

\* new(*args) of trigger_once: to_obj.trigger(*args)
trigger_once_new(obj, arg) == trigger(obj, arg)

\* f = trigger_once(f), or t = TriggerOnce(f).
trigger_once_call ==
    /\ probe = NoCall
    /\ \E via \in {"trigger_once", "TriggerOnce"} :
         probe' = IF via = "trigger_once" THEN trigger_once(via)
                  ELSE TriggerOnce_init(via)
    /\ spawner_idle

\* f(arg), the decorated function called (Tutorial.place_turret() at every
\* Turret.__init__).
trigger_once_new_call ==
    /\ probe.op = "trigger"
    /\ probe.via = "trigger_once"
    /\ probe.calls < MaxTriggerCalls
    /\ \E arg \in TriggerArgs : probe' = trigger_once_new(probe, arg)
    /\ spawner_idle

\* t(arg) and t.trigger(arg) on a TriggerOnce instance.
TriggerOnce_call_call ==
    /\ probe.op = "trigger"
    /\ probe.via = "TriggerOnce"
    /\ probe.calls < MaxTriggerCalls
    /\ \E arg \in TriggerArgs :
         probe' \in {TriggerOnce_call(probe, arg), trigger(probe, arg)}
    /\ spawner_idle

NextTrigger ==
    \/ trigger_once_call
    \/ trigger_once_new_call
    \/ TriggerOnce_call_call

SpecTrigger == InitStrategies /\ [][NextTrigger]_vars

(***************************************************************************)
(* player.py: the player's turret inventory.  turrets is kept in units of  *)
(* 1e-8 (the setter rounds to 8 decimals), max_hp in units of 1e-7, and a  *)
(* value about to be stored is the pair <<u, h>>, u + h/100 units of 1e-8. *)
(* The record under test holds turrets (self._turrets), enemies_killed,    *)
(* score, placed (the x of the turrets of game.turrets, all on one line),  *)
(* collected (the number of TurretItems collected), and call, arg: the     *)
(* last call made and its argument.                                        *)
(***************************************************************************)
MaxKills == 5
MaxCollects == 1
TurretUnit == 100000000

HpUnit == TurretUnit \div 10
MaxHpDraws == {0, HpUnit, 12345678, 3 * HpUnit}
MouseXs == {100, 119, 120}
TurretWidth == 20

\* round(value, 8) for value = <<u, h>>: to the nearest unit, a tie to even.
round8(value) ==
    LET u == value[1]
        h == value[2]
    IN  IF 2 * h > 100 THEN u + 1
        ELSE IF 2 * h < 100 THEN u
        ELSE IF u % 2 = 0 THEN u ELSE u + 1

\* The setter of Player.turrets: self._turrets = round(value, 8)
Player_set_turrets(p, value) == [p EXCEPT !.turrets = round8(value)]

\* pg.sprite.spritecollide(HasRect(Turret.get_virtual_rect(mouse_pos)),
\* game.turrets, False): the turrets whose rect, TurretWidth wide and centred
\* on their pos, overlaps the one centred on mouse_pos.
spritecollide(mouse_x, placed) ==
    { x \in placed : x - mouse_x < TurretWidth /\ mouse_x - x < TurretWidth }

\* Variant: the test is `self.turrets > 0`, as in main.py's Player.
while_left_click_any_positive(p, mouse_x) ==
    LET c == [p EXCEPT !.call = "while_left_click", !.arg = mouse_x]
    IN  IF c.turrets > 0 /\ spritecollide(mouse_x, c.placed) = {}
        THEN Player_set_turrets([c EXCEPT !.placed = @ \cup {mouse_x}],
                                <<c.turrets - TurretUnit, 0>>)
        ELSE c

\* Player.while_left_click() with the mouse at mouse_x
while_left_click(p, mouse_x) ==
    LET c == [p EXCEPT !.call = "while_left_click", !.arg = mouse_x]
    IN  IF c.turrets >= TurretUnit /\ spritecollide(mouse_x, c.placed) = {}
        THEN Player_set_turrets([c EXCEPT !.placed = @ \cup {mouse_x}],
                                <<c.turrets - TurretUnit, 0>>)
        ELSE c

\* Player.on_kill_enemy(enemy, bullet): 0.165 + 0.035 * max_hp is
\* 165 * TurretUnit / 1000 + 35 * max_hp / 100 units; int(max_hp) for the
\* score.
Player_on_kill_enemy(p, max_hp) ==
    LET c == [p EXCEPT !.call = "on_kill_enemy", !.arg = max_hp,
                       !.enemies_killed = @ + 1,
                       !.score = @ + (max_hp \div HpUnit)]
    IN  Player_set_turrets(
          c, <<c.turrets + 165 * (TurretUnit \div 1000)
                 + ((35 * max_hp) \div 100),
               (35 * max_hp) % 100>>)

\* TurretItem.on_collect(): self.player.turrets += 1
TurretItem_on_collect(p) ==
    Player_set_turrets([p EXCEPT !.call = "on_collect", !.arg = 0,
                                 !.collected = @ + 1],
                       <<p.turrets + TurretUnit, 0>>)

\* Player(game, pos)
Player_new ==
    [op |-> "player", turrets |-> 0, enemies_killed |-> 0, score |-> 0,
     placed |-> {}, collected |-> 0, call |-> "__init__", arg |-> 0]

Player_new_call ==
    /\ probe = NoCall
    /\ probe' = Player_new
    /\ spawner_idle

\* Player.update() with the left button down and the mouse at mouse_x.
while_left_click_call ==
    /\ probe.op = "player"
    /\ \E mouse_x \in MouseXs : probe' = while_left_click(probe, mouse_x)
    /\ spawner_idle

\* game.on_kill_enemy(enemy, bullet) reporting a kill to the player.
Player_on_kill_enemy_call ==
    /\ probe.op = "player"
    /\ probe.enemies_killed < MaxKills
    /\ \E max_hp \in MaxHpDraws : probe' = Player_on_kill_enemy(probe, max_hp)
    /\ spawner_idle

\* The player walks over a TurretItem.
TurretItem_on_collect_call ==
    /\ probe.op = "player"
    /\ probe.collected < MaxCollects
    /\ probe' = TurretItem_on_collect(probe)
    /\ spawner_idle

NextPlayer ==
    \/ Player_new_call
    \/ while_left_click_call
    \/ Player_on_kill_enemy_call
    \/ TurretItem_on_collect_call

SpecPlayer == InitStrategies /\ [][NextPlayer]_vars

(***************************************************************************)
(* main.py: the interval-based EnemySpawnMgr.  Times and intervals are in  *)
(* units of 1/IUnit tick; a product is rounded down to the grid.  The      *)
(* record under test holds                                                 *)
(*   is_enabled, next_enemy_time ({} for None), enemy_spawn_interval       *)
(*   curr_tick, handled   game.curr_tick; on_post_tick has run in the tick *)
(*   last_tick            the last tick of the run                         *)
(*   enemies_this_tick    the enemies the last spawn_enemies() spawned     *)
(*   first_handle         {} or the tick of the first handle_enemy_spawns  *)
(*                        made while enabled                               *)
(*   kills                the number of increment_interval_once() calls    *)
(***************************************************************************)
MaxSpawnTick == 78
MaxEnableTick == 2
MaxIntervalKills == 2
MaxLateTicks == 2
LateTick == 10000
IUnit == 100000
SPAWN_INTERVAL_START == 65
SPAWN_ENEMY_DELAY_START == 75
MAX_ENEMIES_PER_TICK == 18

MIN_SPAWN_INTERVAL == IUnit \div 100

\* Intervals late in a game, after the kills made by then: just above 0.05,
\* just above the minimum, and the minimum.
LateIntervals ==
    {MIN_SPAWN_INTERVAL, MIN_SPAWN_INTERVAL + 1, 5 * MIN_SPAWN_INTERVAL + 10}

\* EnemySpawnMgr.get_interval_decrease(): the factor as <<num, den>>.
get_interval_decrease(curr_val) ==
    IF 10 * curr_val > 40 * IUnit THEN <<49, 50>>
    ELSE IF 10 * curr_val > 20 * IUnit THEN <<99, 100>>
    ELSE IF 10 * curr_val > 9 * IUnit THEN <<497, 500>>
    ELSE IF 10 * curr_val > 5 * IUnit THEN <<997, 1000>>
    ELSE IF 100 * curr_val > 25 * IUnit THEN <<9993, 10000>>
    ELSE IF 100 * curr_val > 12 * IUnit THEN <<4999, 5000>>
    ELSE IF 100 * curr_val > 6 * IUnit THEN <<99993, 100000>>
    ELSE <<49999, 50000>>

\* EnemySpawnMgr.increment_interval_once()
increment_interval_once(m) ==
    LET f == get_interval_decrease(m.enemy_spawn_interval)
        v == (m.enemy_spawn_interval * f[1]) \div f[2]
    IN  [m EXCEPT !.enemy_spawn_interval =
                     IF v < MIN_SPAWN_INTERVAL THEN MIN_SPAWN_INTERVAL ELSE v,
                  !.kills = @ + 1]

\* The while loop of spawn_enemies: <<next_enemy_time, enemies_this_tick>>
\* when it ends.
RECURSIVE spawn_enemies_loop(_, _, _)
spawn_enemies_loop(m, next, n) ==
    IF next <= m.curr_tick * IUnit /\ n < MAX_ENEMIES_PER_TICK
    THEN spawn_enemies_loop(m, next + m.enemy_spawn_interval, n + 1)
    ELSE <<next, n>>

\* Variant: next_enemy_time is not brought up to the current tick.
spawn_enemies_no_catch_up(m) ==
    LET r == spawn_enemies_loop(m, CHOOSE t \in m.next_enemy_time : TRUE, 0)
    IN  [m EXCEPT !.next_enemy_time = {r[1]}, !.enemies_this_tick = r[2]]

\* EnemySpawnMgr.spawn_enemies()
spawn_enemies(m) ==
    LET r == spawn_enemies_loop(m, CHOOSE t \in m.next_enemy_time : TRUE, 0)
        now == m.curr_tick * IUnit
    IN  [m EXCEPT !.next_enemy_time = {IF r[1] < now THEN now ELSE r[1]},
                  !.enemies_this_tick = r[2]]

\* EnemySpawnMgr.handle_enemy_spawns()
handle_enemy_spawns(m) ==
    LET h == [m EXCEPT !.handled = TRUE, !.enemies_this_tick = 0]
        s == [h EXCEPT !.next_enemy_time =
                          IF @ = {}
                          THEN {(h.curr_tick + SPAWN_ENEMY_DELAY_START) * IUnit}
                          ELSE @,
                       !.first_handle = IF @ = {} THEN {h.curr_tick} ELSE @]
    IN  IF ~h.is_enabled THEN h ELSE spawn_enemies(s)

\* EnemySpawnMgr.__init__(game)
IntervalSpawnMgr_new ==
    [op |-> "interval", is_enabled |-> FALSE, next_enemy_time |-> {},
     enemy_spawn_interval |-> SPAWN_INTERVAL_START * IUnit,
     curr_tick |-> 0, handled |-> FALSE, last_tick |-> MaxSpawnTick,
     enemies_this_tick |-> 0, first_handle |-> {}, kills |-> 0]

\* The manager at the start of tick LateTick of a long game: enabled at tick
\* 0, the interval brought down by kills, and next_enemy_time left at the
\* previous tick by a spawn_enemies() that reached MAX_ENEMIES_PER_TICK.
IntervalSpawnMgr_late(interval) ==
    [op |-> "interval", is_enabled |-> TRUE,
     next_enemy_time |-> {(LateTick - 1) * IUnit},
     enemy_spawn_interval |-> interval,
     curr_tick |-> LateTick, handled |-> FALSE,
     last_tick |-> LateTick + MaxLateTicks,
     enemies_this_tick |-> 0, first_handle |-> {0}, kills |-> 0]

IntervalSpawnMgr_new_call ==
    /\ probe = NoCall
    /\ probe' \in {IntervalSpawnMgr_new}
                    \cup {IntervalSpawnMgr_late(i) : i \in LateIntervals}
    /\ spawner_idle

\* Tutorial.place_turret(), called by Turret.__init__ during the tick's
\* updates: game.enemy_spawner.is_enabled = True
place_turret_call ==
    /\ probe.op = "interval"
    /\ ~probe.handled
    /\ ~probe.is_enabled
    /\ probe.curr_tick <= MaxEnableTick
    /\ probe' = [probe EXCEPT !.is_enabled = TRUE]
    /\ spawner_idle

\* on_kill_enemy(enemy, bullet) during the tick's updates:
\* game.enemy_spawner.increment_interval_once().  Bullets come from turrets,
\* and the first turret placed enables the manager.
increment_interval_once_call ==
    /\ probe.op = "interval"
    /\ ~probe.handled
    /\ probe.is_enabled
    /\ probe.kills < MaxIntervalKills
    /\ probe' = increment_interval_once(probe)
    /\ spawner_idle

\* on_post_tick(): game.enemy_spawner.handle_enemy_spawns()
handle_enemy_spawns_call ==
    /\ probe.op = "interval"
    /\ ~probe.handled
    /\ probe' = handle_enemy_spawns(probe)
    /\ spawner_idle

\* Game.wait_for_next_frame
interval_next_frame ==
    /\ probe.op = "interval"
    /\ probe.handled
    /\ probe.curr_tick < probe.last_tick
    /\ probe' = [probe EXCEPT !.curr_tick = @ + 1, !.handled = FALSE]
    /\ spawner_idle

NextInterval ==
    \/ IntervalSpawnMgr_new_call
    \/ place_turret_call
    \/ increment_interval_once_call
    \/ handle_enemy_spawns_call
    \/ interval_next_frame

SpecInterval == InitStrategies /\ [][NextInterval]_vars

(***************************************************************************)
(* Claims                                                                  *)
(***************************************************************************)
\* The step is the call of on_tick(): only on_tick sets `ticked`.
IsOnTick == ~ticked /\ ticked'

\* The step is a death reported through game.on_kill_enemy.
IsKillReport == kill_reports' = kill_reports + 1

\* 0.0006 + 0.0004 * max_hp, fixed point.
KillBump(max_hp) == KillBase + (max_hp * 4) \div 10000

\* C1  Gate one-wayness: once enabled is true, no step (enable with any delay,
\* check_if_should_enable, on_tick, a kill report) makes it false again.
C1_GateOneWay == [][enabled => enabled']_vars

\* C1 witness: enable(delay) with delay > 0 was called on an enabled manager
\* (enable_after lies in the future) and it is still enabled.
C1_Witness == enabled /\ (\E a \in enable_after : a > curr_tick)

\* C2  Delay correctness: for a manager constructed disabled whose only
\* enable call was enable(D) at tick T, with on_tick() run in every frame:
\* enabled is false at every tick before T+D, and true once on_tick() has run
\* at tick T+D (at once when D = 0) and at every later tick.
C2_DelayCorrect ==
    (~ctor.enabled /\ enable_calls = 1) =>
        \A c \in first_enable :
            LET due == c[1] + c[2]
            IN  /\ curr_tick < due => ~enabled
                /\ (curr_tick = due /\ (ticked \/ c[2] = 0)) => enabled
                /\ curr_tick > due => enabled

\* C2 witness: enable(D) with D >= 2 on a disabled manager, on_tick() has just
\* run at tick T+D and the manager is enabled.
C2_Witness ==
    /\ ~ctor.enabled /\ enable_calls = 1 /\ enabled /\ ticked
    /\ \E c \in first_enable : c[2] >= 2 /\ curr_tick = c[1] + c[2]

\* C3 as stated: after any on_tick() call, points < next_enemy.get_cost()
\* (stated here for pending encounters that cost at least 1 point).
C3_BudgetExitAnyTick ==
    (ticked /\ pc = "idle" /\ get_cost(next_enemy) >= Unit) =>
        points < get_cost(next_enemy)

\* C3 amended: after any on_tick() call that found the manager enabled,
\* points < next_enemy.get_cost().
C3_BudgetExitEnabled ==
    (ticked /\ pc = "idle" /\ enabled) => points < get_cost(next_enemy)

\* C3 witness: an enabled on_tick() has returned after realizing an encounter.
C3_Witness == ticked /\ pc = "idle" /\ enabled /\ spent > 0

\* C4  Frozen before enable: an on_tick() call that leaves the manager not
\* enabled changes neither points, strength, next_enemy nor the enemies, and
\* does not enter the drain loop.
C4_FrozenBeforeEnable ==
    [][(IsOnTick /\ ~enabled') =>
          (pc' = "idle" /\ UNCHANGED <<points, strength, next_enemy, enemies>>)]_vars

\* C4 witness: on_tick() has run on a disabled manager holding a budget and
\* left it disabled.
C4_Witness == ticked /\ ~enabled /\ points > 0 /\ pc = "idle"

\* C5  Strength monotonicity: while every enemy has max_hp >= 0, no step (an
\* on_tick, a kill report, or any other) lowers strength.
C5_StrengthMonotone ==
    [][(\A e \in BagToSet(enemies) : e.max_hp >= 0) => strength' >= strength]_vars

\* C5 witness: strength has grown through both a kill report and a tick drift.
C5_Witness ==
    /\ kill_reports > 0 /\ accrued > 0
    /\ strength >= ctor.strength + TickDrift + KillBase

\* C6 as stated: the drain loop terminates because every realization costs at
\* least 1 point, i.e. each iteration lowers points by at least 1.0.
C6_DrainConsumes ==
    [][(pc = "drain" /\ pc' = "drain") => points' <= points - Unit]_vars

\* C7  Budget accounting: points = start_points + (the strength values added
\* at the enabled ticks) - (the health of the enemies of all realized
\* encounters), in every state.
C7_BudgetAccounting == points = ctor.start_points + accrued - spent

\* C7 witness: two Single encounters (health 1, then 3, or 3, then 1) have
\* been realized, so a freshly decided encounter was itself realized.
C7_Witness ==
    /\ accrued > 0 /\ spent = 4 * Unit
    /\ BagIn(EnemyWithHealth(Unit), enemies)
    /\ BagIn(EnemyWithHealth(3 * Unit), enemies)

\* C8  Per-tick accrual: an on_tick() call that finds the manager enabled adds
\* the strength held before the call to points, raises strength by exactly
\* 0.0001/60, and only then enters the drain loop (no encounter is realized
\* or decided by that step).
C8_PerTickAccrual ==
    [][(IsOnTick /\ enabled') =>
          /\ points' = points + strength
          /\ strength' = strength + TickDrift
          /\ pc' = "drain"
          /\ UNCHANGED <<next_enemy, enemies>>]_vars

\* C8 witness: an enabled tick has drifted strength without realizing any
\* encounter.
C8_Witness ==
    /\ ticked /\ enabled /\ pc = "idle" /\ spent = 0
    /\ accrued > 0 /\ strength > ctor.strength

\* C9  Only player-attributable kills feed back: when an enemy dies, the kill
\* is reported (and strength may change) iff the damage source is a Bullet.
C9_OnlyBulletKillsReport ==
    [][(BagCardinality(enemies') < BagCardinality(enemies)) =>
          IF last_damage' = "Bullet"
          THEN kill_reports' = kill_reports + 1
          ELSE kill_reports' = kill_reports /\ strength' = strength]_vars

\* C9 witness: on an enabled manager the initial enemy died from damage that
\* is not a Bullet's, and nothing was reported.
C9_Witness ==
    /\ enabled /\ last_damage = "Env" /\ enemies = EmptyBag
    /\ kill_reports = 0 /\ strength = ctor.strength

\* C10 as stated: every reported kill raises strength by exactly
\* 0.0006 + 0.0004 * max_hp of the enemy killed.
C10_KillBumpAlways ==
    [][IsKillReport =>
          \E e \in BagToSet(enemies) :
              /\ enemies' = enemies (-) SetToBag({e})
              /\ strength' = strength + KillBump(e.max_hp)]_vars

\* C10 amended: a reported kill raises strength by exactly
\* 0.0006 + 0.0004 * max_hp when the manager is enabled, and leaves strength
\* unchanged when it is not.
C10_KillBumpEnabled ==
    [][IsKillReport =>
          \E e \in BagToSet(enemies) :
              /\ enemies' = enemies (-) SetToBag({e})
              /\ strength' = IF enabled THEN strength + KillBump(e.max_hp)
                             ELSE strength]_vars

\* C10 witness: the initial enemy (max_hp 1) was killed by a bullet on an
\* enabled manager before any tick: strength rose by 0.0006 + 0.0004.
C10_Witness ==
    /\ enabled /\ kill_reports = 1 /\ accrued = 0
    /\ strength = ctor.strength + KillBump(Unit)

\* C11  Strength is never mutated while disabled: a step that leaves the manager
\* disabled (an on_tick() whose gate check does not open the gate, a kill
\* report, enable with a delay still pending) leaves strength unchanged.
C11_StrengthFrozenWhileDisabled == [][~enabled' => strength' = strength]_vars

\* C11 as stated, over every state with enabled = FALSE: the on_tick() whose
\* own gate check opens the gate starts disabled and applies the drift.
C11_StrengthFrozenFromDisabled == [][~enabled => strength' = strength]_vars

\* C11 witness: a disabled manager has had a kill reported and on_tick() run
\* in a later frame, and strength is still the constructor's.
C11_Witness ==
    /\ ~enabled /\ ticked /\ curr_tick >= 1
    /\ kill_reports > 0
    /\ strength = ctor.strength

\* C12  Disabled until explicit enable: a manager constructed with
\* enabled=False on which enable() was never called is still disabled, has
\* accrued and spent nothing, has never entered the drain loop and holds its
\* first decision, so that no enemy beyond the initial one exists, whatever
\* on_tick() calls and kill reports it has received.
C12_DisabledUntilEnable ==
    (~ctor.enabled /\ enable_calls = 0) =>
        /\ ~enabled /\ enable_after = {}
        /\ pc = "idle"
        /\ accrued = 0 /\ spent = 0 /\ points = ctor.start_points
        /\ BagCardinality(enemies) <= 1
        /\ \A e \in BagToSet(enemies) : e.max_hp = Unit

\* C12 witness: never enabled, with a budget that affords the pending
\* encounter, after on_tick() ran in two frames and a kill was reported.
C12_Witness ==
    /\ ~ctor.enabled /\ enable_calls = 0 /\ ~enabled
    /\ curr_tick >= 1 /\ ticked
    /\ kill_reports > 0
    /\ points >= get_cost(next_enemy) /\ get_cost(next_enemy) >= Unit

\* The step is a call enable(0): it sets enable_after to the current tick.
IsEnableZero == enable_calls' = enable_calls + 1 /\ enable_after' = {curr_tick}

\* C13  enable(delay=0) enables instantly: when enable(0) returns, enabled is
\* already true, with no on_tick() in between.
C13_EnableZeroInstant == [][IsEnableZero => (enabled' /\ ticked' = ticked)]_vars

\* C13 witness: a manager constructed disabled is enabled in the very frame
\* of its first call enable(0), before that frame's on_tick().
C13_Witness ==
    /\ ~ctor.enabled /\ enabled
    /\ ~ticked /\ accrued = 0
    /\ first_enable = {<<curr_tick, 0>>}

\* C14  The gate is checked every tick until satisfied. Once enable_after is
\* set, the manager is enabled after every on_tick() that runs at a tick >=
\* the enable_after then in force; a further enable(D') at tick T' made while
\* the activation is pending replaces the deadline by T' + D'. With a single
\* enable(D) at tick T the deadline is T + D.
C14_LatestDeadlineKept ==
    /\ (ticked /\ enable_after # {} /\ (\A a \in enable_after : curr_tick >= a))
           => enabled
    /\ (ticked /\ enable_calls = 1 /\
          (\E c \in first_enable : curr_tick >= c[1] + c[2])) => enabled

\* C14 as stated: enabled after every on_tick() at a tick >= T + D of the
\* first enable(D) at tick T, whatever further enable(D') calls were made.
C14_FirstDeadlineKept ==
    (ticked /\ (\E c \in first_enable : curr_tick >= c[1] + c[2])) => enabled

\* C14 witness: a second enable() call was made while the first activation
\* was pending, and on_tick() at the deadline in force opened the gate.
C14_Witness ==
    /\ enable_calls = 2 /\ enabled /\ ticked
    /\ accrued = strength - 1
    /\ \E c \in first_enable : c[2] > 0 /\ enable_after = {curr_tick}
                                /\ curr_tick > c[1]

\* C15  The decision rule: decide_next_enemy() at strength s with the draw u
\* produces a Cluster exactly when s > 0.2 and u < min(s * 0.5, 0.35), and a
\* Single otherwise; for s <= 0.2 the result is a Single whatever the draw.
C15_DecisionRule ==
    probe.op = "decide_next_enemy" =>
        /\ probe.o.kind \in {"Single", "Cluster"}
        /\ probe.o.kind = "Cluster" <=>
              /\ probe.S > ClusterMinStrength
              /\ 2 * probe.u < Min(probe.S, 2 * ClusterChanceCap)
        /\ probe.S <= ClusterMinStrength => probe.o.kind = "Single"

\* C15 witness: at strength 1.0, where strength * 0.5 exceeds the cap 0.35,
\* the draw 0.25 decided a Cluster.
C15_Witness ==
    /\ probe.op = "decide_next_enemy"
    /\ probe.S = Unit /\ probe.u = Unit \div 4
    /\ probe.o.kind = "Cluster"

\* C16  A randomized SingleEnemySpawn holds an integer health >= 1, and so
\* costs at least 1 point, for every strength > 0 and every draw.
C16_SingleHealthAtLeastOne ==
    (probe.op = "SingleEnemySpawn.randomize" /\ probe.S > 0) =>
        /\ probe.o.health \in Nat
        /\ probe.o.health >= 1
        /\ get_cost(probe.o) >= Unit

\* C17  At the default strength 0.005 the range uniform(1, 2*sqrt(0.2)) has
\* its upper bound below its lower bound (2 * base_enemy_health < 1), and
\* SingleEnemySpawn.randomize() yields health 1 for every draw.
C17_DefaultSingleHealthOne ==
    /\ base_enemy_health_lt(DefaultStrength, 1, 2)
    /\ (probe.op = "SingleEnemySpawn.randomize" /\ probe.S = DefaultStrength)
           => probe.o.health = 1

\* C17 witness: a SingleEnemySpawn randomized at the default strength.
C17_Witness ==
    /\ probe.op = "SingleEnemySpawn.randomize"
    /\ probe.S = DefaultStrength
    /\ probe.o = SingleEnemySpawn(1)

\* C18  Cluster amount floor: a randomized cluster never has fewer than 2
\* members, at any strength; and it has exactly 2 for every draw when the
\* upper end of the amount range, mean_amount * 1.3 = strength * 3.9, is at
\* most 2.5.
C18_ClusterAmountFloor ==
    probe.op = "ClusterEnemySpawn.randomize" =>
        /\ Len(probe.o.enemy_health_list) >= 2
        /\ 39 * probe.S <= 25 * Unit => Len(probe.o.enemy_health_list) = 2

\* C18 as stated: exactly 2 members whenever mean_amount = strength * 3.0 is
\* below 2 / 0.7 (the lower end of the amount range is below 2).
C18_ClusterAmountTwoBelowFloor ==
    probe.op = "ClusterEnemySpawn.randomize" =>
        /\ Len(probe.o.enemy_health_list) >= 2
        /\ 21 * probe.S < 20 * Unit => Len(probe.o.enemy_health_list) = 2

\* C18 witness: a cluster randomized at strength 0.25, where the amount
\* drawn, round(uniform(0.525, 0.975)) = 1, is raised to 2.
C18_Witness ==
    /\ probe.op = "ClusterEnemySpawn.randomize"
    /\ probe.S = 150000
    /\ ClusterAmountDraws(probe.S) = {1}
    /\ Len(probe.o.enemy_health_list) = 2

\* The step realizes a Cluster encounter: spawn_from_obj is the only step
\* taken inside the drain loop that stays in it.
IsClusterSpawn ==
    /\ pc = "drain" /\ pc' = "drain"
    /\ next_enemy.kind = "Cluster"
    /\ spent' # spent

\* C19  Cluster cost matches what is spawned: get_cost() is the sum of
\* enemy_health_list, spawn() creates exactly one enemy per list entry with
\* that entry's health, and the points deducted equal the total health of the
\* enemies created.
C19_ClusterCostMatchesSpawn ==
    [][IsClusterSpawn =>
         LET l == next_enemy.enemy_health_list
             created == enemies' (-) enemies
         IN  /\ get_cost(next_enemy) = SeqSum(l)
             /\ enemies' = enemies (+) created
             /\ BagCardinality(created) = Len(l)
             /\ \A e \in BagToSet(created) :
                    /\ e.health = e.max_hp
                    /\ CopiesIn(e, created) =
                         Cardinality({i \in 1..Len(l) : l[i] = e.max_hp})
             /\ points - points' = BagHealth(created)
             /\ points - points' = get_cost(next_enemy)]_vars

\* C19 witness: a cluster of two members with healths 2.0 and 2.75 was
\* realized and paid for.
C19_Witness ==
    /\ BagCardinality(enemies) = 2
    /\ BagIn(EnemyWithHealth(2 * Unit), enemies)
    /\ BagIn(EnemyWithHealth(2 * Unit + 3 * (Unit \div 4)), enemies)
    /\ spent = 4 * Unit + 3 * (Unit \div 4)

\* The square of the distance between two points.
Dist2(a, b) == (a[1] - b[1]) * (a[1] - b[1]) + (a[2] - b[2]) * (a[2] - b[2])

\* C20  SingleEnemySpawn.spawn() creates exactly one enemy; its health (and
\* max_hp) equals get_cost(), and its position lies at the sampled distance,
\* within [250, 500], of the player's position at spawn time.
C20_SingleSpawnOneEnemy ==
    probe.op = "SingleEnemySpawn.spawn" =>
        /\ Len(probe.created) = 1
        /\ probe.created[1].health = get_cost(probe.o)
        /\ probe.created[1].max_hp = get_cost(probe.o)
        /\ SetToBag({EnemyWithHealth(probe.created[1].health)}) = spawn(probe.o)
        /\ Dist2(probe.created[1].pos, probe.player_pos)
              = probe.distance * probe.distance
        /\ Dist2(probe.created[1].pos, probe.player_pos) >= 250 * 250
        /\ Dist2(probe.created[1].pos, probe.player_pos) <= 500 * 500

\* C20 witness: a Single of health 2 spawned 375 away from a player who is
\* not at the origin, in a direction off the axes.
C20_Witness ==
    /\ probe.op = "SingleEnemySpawn.spawn"
    /\ probe.o.health = 2
    /\ probe.player_pos = <<300, 200>>
    /\ probe.distance = 375
    /\ probe.created[1].pos = <<300 + 225, 200 + 300>>

\* C21  Cluster rejection-correction: every cluster member is placed at a
\* distance of at least 250 (and at most mean_distance + distance_variation),
\* for mean_distance in [250, 500] and distance_variation in [70, 170]; a
\* first sample below 250 is replaced by a sample of
\* [250, mean_distance + distance_variation].
C21_ClusterDistanceFloor ==
    probe.op = "ClusterEnemySpawn.spawn" =>
        /\ probe.mean_distance >= 250 /\ probe.mean_distance <= 500
        /\ probe.distance_variation >= 70 /\ probe.distance_variation <= 170
        /\ Len(probe.created) = Len(probe.o.enemy_health_list)
        /\ \A i \in 1..Len(probe.created) :
              /\ probe.created[i].distance >= 250
              /\ probe.created[i].distance
                    <= probe.mean_distance + probe.distance_variation
              /\ probe.created[i].first >= 250
                    => probe.created[i].distance = probe.created[i].first

\* C21 witness: in a cluster spawned with mean_distance 250 and
\* distance_variation 170, one member's first sample was 80 and it is placed
\* at 250, another's first sample 420 was kept.
C21_Witness ==
    /\ probe.op = "ClusterEnemySpawn.spawn"
    /\ probe.mean_distance = 250 /\ probe.distance_variation = 170
    /\ \E i \in 1..Len(probe.created) :
          probe.created[i].first = 80 /\ probe.created[i].distance = 250
    /\ \E i \in 1..Len(probe.created) :
          probe.created[i].first = 420 /\ probe.created[i].distance = 420

\* The step realizes the pending encounter (spawn_from_obj).
IsRealization == pc = "drain" /\ pc' = "drain" /\ enemies' # enemies

\* C22  The assertion of spawn_from_obj: at every realization reached through
\* on_tick(), points >= cost before the deduction; and points is never
\* negative (every constructor explored has start_points >= 0).
C22_PointsCoverCost ==
    /\ [](ctor.start_points >= 0 => points >= 0)
    /\ [][IsRealization =>
            /\ points >= get_cost(next_enemy)
            /\ points' = points - get_cost(next_enemy)
            /\ points' >= 0]_vars

\* C22 witness: an encounter of health 1 was realized with exactly the
\* points it costs, leaving 0.
C22_Witness == spent = Unit /\ points = 0 /\ accrued > 0

\* C23  End-to-end scenario: strength 0.01, points 0, enable(0) at tick 0.
\* No encounter is realized while the cumulative points are below 1; the
\* on_tick() in which they reach 1 realizes a Single of health 1; and after
\* 100 on_tick() calls that has happened.
C23_ScenarioFirstSingle ==
    first_enable = {<<0, 0>>} =>
        /\ accrued < Unit => (spent = 0 /\ BagCardinality(enemies) = 1)
        /\ (ticked /\ pc = "idle" /\ accrued >= Unit) => spent >= Unit
        /\ (ticked /\ pc = "idle" /\ curr_tick >= 99) => spent >= Unit
        /\ spent = Unit =>
              /\ CopiesIn(EnemyWithHealth(Unit), enemies) = 2
              /\ points = accrued - Unit
        /\ next_enemy = SingleEnemySpawn(1)

\* C23 witness: the 100th on_tick() has returned; the cumulative points
\* 100 * 0.01 + 4950 drifts reached 1 in it and a Single of health 1 was
\* realized, and the 99th had left the cumulative points below 1.
C23_Witness ==
    /\ first_enable = {<<0, 0>>}
    /\ curr_tick = 99 /\ ticked /\ pc = "idle"
    /\ accrued = 100 * ScenarioStrength + 4950
    /\ accrued - (strength - TickDrift) < Unit
    /\ spent = Unit /\ points = 4950

\* C24  The pending encounter is immutable once decided: next_enemy (and so
\* its cost) changes only in the step that realizes it, not in on_tick()'s
\* accrual and not in a kill report; and a kill report changes nothing of the
\* manager but strength.
C24_PendingEncounterImmutable ==
    [][/\ next_enemy' # next_enemy => IsRealization
       /\ ~IsRealization => get_cost(next_enemy') = get_cost(next_enemy)
       /\ IsKillReport =>
             UNCHANGED <<next_enemy, points, enabled, enable_after, pc,
                         curr_tick, accrued, spent>>]_vars

\* C24 witness: the encounter decided at construction is still pending after
\* an accrual and a kill report have both raised strength.
C24_Witness ==
    /\ enabled /\ pc = "idle" /\ spent = 0
    /\ kill_reports > 0 /\ accrued > 0
    /\ strength >= ctor.strength + TickDrift + KillBase
    /\ get_cost(next_enemy) > points

\* The last step on the UsesGame instance was set_game or __init__.
IsSetGame == probe.op \in {"set_game", "__init__"}

\* The game an argument resolves to: g.game for a UsesGame g, else g.
Resolved(arg) ==
    IF arg \in UsesGames THEN game_of(arg) ELSE arg

\* C25  set_game(g) with g a plain game object, or a UsesGame whose game is
\* not None, sets self.game to g, resp. g.game, whatever game was set before,
\* and does not raise; __init__(g) has the same result, under method_name
\* "__init__".
C25_SetGameResolves ==
    (IsSetGame /\ Resolved(probe.arg) # "None") =>
        /\ self_game(probe) = Resolved(probe.arg)
        /\ probe.inst_game = Resolved(probe.arg)
        /\ ~probe.raised
        /\ probe.method_name = probe.op

\* C25 as stated, for every non-None g: self.game becomes g.game also when g
\* is a UsesGame whose game is None.
C25_SetGameResolvesAnyArg ==
    (IsSetGame /\ probe.arg # "None") =>
        self_game(probe) = Resolved(probe.arg)

\* C25 witness: set_game(ug) with ug.game = g2 on an instance whose game was
\* g1 leaves g2.
C25_Witness ==
    /\ probe.op = "set_game"
    /\ probe.prev_inst = "g1" /\ probe.arg = "ug_g2"
    /\ probe.inst_game = "g2"

\* C26  When the resolved game is None and neither the instance nor the
\* class has a game, strict set_game raises RuntimeError and non-strict
\* set_game raises nothing and leaves self.game None; and RuntimeError is
\* raised in no other case.
C26_StrictRaises ==
    IsSetGame =>
        /\ (Resolved(probe.arg) = "None" /\ probe.prev = "None") =>
              /\ probe.strict => probe.raised
              /\ ~probe.strict => (~probe.raised /\ self_game(probe) = "None")
        /\ probe.raised =>
              (probe.strict /\ Resolved(probe.arg) = "None"
                 /\ probe.prev = "None")

\* C26 witness: strict set_game(ug) with ug.game None, on an instance of a
\* class without a game, raised.
C26_Witness ==
    /\ probe.op = "set_game" /\ probe.calls = 1
    /\ probe.arg = "ug_None" /\ probe.strict
    /\ probe.cls_game = "None" /\ probe.prev_inst = "Unset"
    /\ probe.raised

\* C27  set_game(None) on an instance that already has a game, on the
\* instance or on its class, keeps that game and does not raise, strict or
\* not.
C27_NoneKeepsGame ==
    (IsSetGame /\ probe.arg = "None" /\ probe.prev # "None") =>
        /\ self_game(probe) = probe.prev
        /\ ~probe.raised

\* C27 witness: strict set_game(None) on an instance without an attribute
\* of its own, whose class has game = g1.
C27_Witness ==
    /\ probe.op = "set_game" /\ probe.calls = 1
    /\ probe.arg = "None" /\ probe.strict
    /\ probe.prev_inst = "Unset" /\ probe.cls_game = "g1"
    /\ self_game(probe) = "g1" /\ ~probe.raised

\* C28  _set_group_flags(in_root, in_display) on a new instance: an argument
\* that is not None wins; a None argument falls back to the class attribute;
\* and in_display, when still None after that, takes the resolved in_root.
\* With the class defaults (in_root True, in_display None) and no argument,
\* both are True.
C28_GroupFlags ==
    probe.op = "_set_group_flags" =>
        /\ probe.arg_in_root # "None" => probe.in_root = probe.arg_in_root
        /\ probe.arg_in_root = "None" => probe.in_root = probe.cls_in_root
        /\ probe.arg_in_display # "None" =>
              probe.in_display = probe.arg_in_display
        /\ (probe.arg_in_display = "None" /\ probe.cls_in_display # "None") =>
              probe.in_display = probe.cls_in_display
        /\ (probe.arg_in_display = "None" /\ probe.cls_in_display = "None") =>
              probe.in_display = probe.in_root
        /\ (probe.arg_in_root = "None" /\ probe.arg_in_display = "None"
              /\ probe.cls_in_root = "True" /\ probe.cls_in_display = "None") =>
              (probe.in_root = "True" /\ probe.in_display = "True")

\* C28 witness: _set_group_flags(False, None) on a GroupMemberSprite with the
\* class defaults gives in_root False and in_display False.
C28_Witness ==
    /\ probe.op = "_set_group_flags"
    /\ probe.cls_in_root = "True" /\ probe.cls_in_display = "None"
    /\ probe.arg_in_root = "False" /\ probe.arg_in_display = "None"
    /\ probe.in_root = "False" /\ probe.in_display = "False"

\* C29  After GroupMemberSprite.__init__(game, *groups, in_root, in_display)
\* has returned, the sprite is a member of exactly the passed groups, plus
\* root_group iff the resolved in_root is true, plus display_group iff the
\* resolved in_display is true.
C29_GroupMembership ==
    (probe.op = "GroupMemberSprite.__init__" /\ ~probe.raised) =>
        /\ probe.arg_groups \subseteq probe.groups
        /\ probe.groups \subseteq
              probe.arg_groups \cup {"root_group", "display_group"}
        /\ "root_group" \in probe.groups <=> probe.in_root = "True"
        /\ "display_group" \in probe.groups <=> probe.in_display = "True"
        /\ probe.in_root =
              option(probe.arg_in_root, probe.cls_in_root)
        /\ probe.in_display =
              option(option(probe.arg_in_display, probe.cls_in_display),
                     probe.in_root)
        /\ self_game(probe) = probe.arg

\* C29 witness: __init__(game, ga, in_root=False) with in_display
\* unspecified leaves the sprite in ga only.
C29_Witness ==
    /\ probe.op = "GroupMemberSprite.__init__" /\ ~probe.raised
    /\ probe.cls_in_root = "True" /\ probe.cls_in_display = "None"
    /\ probe.arg_in_root = "False" /\ probe.arg_in_display = "None"
    /\ probe.arg_groups = {"ga"}
    /\ probe.groups = {"ga"}

\* The value preset for an attribute: on the instance, else on the class.
Preset(inst, cls) == IF inst # "Unset" THEN inst ELSE cls

\* C30  SizedSprite and PositionedSprite construction: a passed size (pos)
\* overrides the value preset on the class or instance; a preset value is
\* kept when none is passed; when neither exists a TypeError naming size
\* (pos) is raised, size being checked before pos.
C30_SizeAndPos ==
    probe.op \in {"SizedSprite.__init__", "PositionedSprite.__init__"} =>
        LET psize == Preset(probe.preset_size, probe.cls_size)
            ppos == Preset(probe.preset_pos, probe.cls_pos)
            no_size == probe.arg_size = "None" /\ psize = "None"
            no_pos == probe.arg_pos = "None" /\ ppos = "None"
        IN  /\ probe.arg_size # "None" => probe.size = probe.arg_size
            /\ (probe.arg_size = "None" /\ psize # "None") => probe.size = psize
            /\ no_size <=> probe.error = "size"
            /\ probe.op = "SizedSprite.__init__" => probe.error # "pos"
            /\ (probe.op = "PositionedSprite.__init__" /\ ~no_size) =>
                  /\ probe.arg_pos # "None" => probe.pos = probe.arg_pos
                  /\ (probe.arg_pos = "None" /\ ppos # "None") =>
                        probe.pos = ppos
                  /\ no_pos <=> probe.error = "pos"

\* C30 witness: a PositionedSprite built with a size preset on its class
\* and neither a preset nor a passed pos raised the TypeError naming pos.
C30_Witness ==
    /\ probe.op = "PositionedSprite.__init__"
    /\ probe.cls_size = "s1" /\ probe.arg_size = "None"
    /\ probe.preset_size = "Unset" /\ probe.size = "s1"
    /\ probe.cls_pos = "None" /\ probe.preset_pos = "Unset"
    /\ probe.arg_pos = "None"
    /\ probe.error = "pos"

\* A construction of a RectUpdatingSprite that raised no error.
IsRectInit ==
    /\ probe.op = "RectUpdatingSprite.__init__"
    /\ ~probe.raised
    /\ probe.error = ""

\* The indices of the calls of fn made on the sprite.
CallsOf(fn) == {i \in 1..Len(probe.calls) : probe.calls[i].fn = fn}

\* The rect present before RectUpdatingSprite.__init__'s own body runs.
RectPresent == option(probe.arg_rect, probe.preset_rect)

\* C31 (as stated): after RectUpdatingSprite.__init__ with a rect passed or
\* preset, neither create_rect() nor update_rect() has been called and the
\* rect is kept.
C31_PresentRectNoCalls ==
    (IsRectInit /\ RectPresent # "None")
      => /\ CallsOf("create_rect") = {}
         /\ CallsOf("update_rect") = {}
         /\ probe.rect = RectPresent

\* C31 (amended): after an error-free RectUpdatingSprite.__init__ with a rect
\* passed or preset, create_rect() has not been called, the rect is kept, and
\* update_rect() has been called exactly once, by the set_pos() of the
\* inherited position assignment; with no rect present, create_rect() has
\* been called exactly once, self.rect is its result, and update_rect() has
\* been called exactly once, after create_rect() and with self.rect already
\* that result.
C31_RectInit ==
    IsRectInit =>
      IF RectPresent # "None"
      THEN /\ CallsOf("create_rect") = {}
           /\ probe.rect = RectPresent
           /\ probe.calls = <<[fn |-> "pos.setter", arg |-> probe.pos,
                               rect |-> RectPresent, pos |-> "None"],
                              [fn |-> "set_pos", arg |-> probe.pos,
                               rect |-> RectPresent, pos |-> "None"],
                              [fn |-> "update_rect", arg |-> "None",
                               rect |-> RectPresent, pos |-> probe.pos]>>
      ELSE /\ Cardinality(CallsOf("create_rect")) = 1
           /\ Cardinality(CallsOf("update_rect")) = 1
           /\ probe.rect = probe.ret
           /\ probe.rect = "r_created"
           /\ \A i \in CallsOf("create_rect"), j \in CallsOf("update_rect") :
                /\ i < j
                /\ probe.calls[i].rect = "None"
                /\ probe.calls[j].rect = probe.ret

\* Both cases of C31 happen: a passed rect kept, and a rect created.
C31_Witness ==
    /\ IsRectInit
    /\ probe.arg_rect = "r_arg"
    /\ probe.rect = "r_arg"
    /\ probe.center = "p3"

C31_WitnessCreated ==
    /\ IsRectInit
    /\ RectPresent = "None"
    /\ probe.rect = "r_created"
    /\ probe.center = "p3"

\* The step is a position assignment: inst.set_pos(v) or inst.pos = v.
IsPosAssignment ==
    /\ probe # NoCall
    /\ probe' # probe
    /\ probe'.op \in {"set_pos", "pos.setter"}

\* The calls the step added to the sprite's calls.
NewCalls == SubSeq(probe'.calls, Len(probe.calls) + 1, Len(probe'.calls))

\* C32: a position assignment of v, by set_pos(v) or by `inst.pos = v` (which
\* calls set_pos(v) exactly once), stores v in _pos; update_rect() is called
\* exactly once, with _pos already v, when self.rect is not None, and not at
\* all when self.rect is None; afterwards the center of a sprite's rect is
\* its pos.
C32_SetPosUpdatesRect ==
    [][IsPosAssignment =>
         LET n == Len(NewCalls)
             first == IF probe'.op = "pos.setter" THEN 2 ELSE 1
             v == NewCalls[first].arg
         IN  /\ n >= first
             /\ probe'.op = "pos.setter"
                  => NewCalls[1] = [fn |-> "pos.setter", arg |-> v,
                                    rect |-> probe.rect, pos |-> probe.pos]
             /\ NewCalls[first] = [fn |-> "set_pos", arg |-> v,
                                   rect |-> probe.rect, pos |-> probe.pos]
             /\ probe'.pos = v
             /\ probe'.rect = probe.rect
             /\ IF probe.rect # "None"
                THEN /\ n = first + 1
                     /\ NewCalls[n] = [fn |-> "update_rect", arg |-> "None",
                                       rect |-> probe.rect, pos |-> v]
                     /\ probe'.center = v
                ELSE /\ n = first
                     /\ probe'.center = probe.center]_vars

\* A sprite with a rect whose pos was assigned twice, to p4 and then to p5.
C32_Witness ==
    /\ probe # NoCall
    /\ probe.op = "pos.setter"
    /\ probe.rect = "r_created"
    /\ SetPosCalls(probe) = 2
    /\ probe.pos = "p5"
    /\ probe.center = "p5"
    /\ \E i \in CallsOf("update_rect") : probe.calls[i].pos = "p4"

\* The step is a bullet update that hit an enemy.
IsBulletHit ==
    /\ probe.op = "combat"
    /\ probe' # probe
    /\ probe'.collided # "None"

\* The hit at which an enemy created with health h is killed: the first k
\* with round(h - k, 9) <= 0.
KillingHit(h) ==
    IF round9_positive(h)
    THEN (IF h[2] > HalfNano THEN h[1] + 1 ELSE h[1])
    ELSE 1

\* The number of times game.on_kill_enemy was called for enemy e.
ReportsOf(e) ==
    Cardinality({i \in 1..Len(probe.reported) : probe.reported[i] = e})

\* math.ceil(health)
health_ceil(h) == IF h[2] > 0 THEN h[1] + 1 ELSE h[1]

\* C33 (as stated): an enemy created with health h > 0 is alive before its
\* ceil(h)-th hit and dead from it on.
C33_KilledOnCeilHit ==
    probe.op = "combat" =>
      \A e \in EnemyIds :
        health_positive(probe.enemy[e].max_hp) =>
          (probe.enemy[e].in_groups
             <=> probe.enemy[e].hits < health_ceil(probe.enemy[e].max_hp))

\* C33 (amended): an enemy created with health h > 0 loses exactly 1 health
\* per bullet hit and only enemies of game.enemies are hit; it stays in
\* game.enemies while its health rounded to 9 decimals is > 0; the hit that
\* brings the rounded health to <= 0, which is hit number ceil(h - 0.5e-9)
\* or the first hit, reports it to game.on_kill_enemy and removes it from
\* all groups; it is reported at most once, and exactly once when dead.
C33_HealthAndKill ==
    /\ [](probe.op = "combat" =>
            \A e \in EnemyIds :
              LET en == probe.enemy[e]
              IN  health_positive(en.max_hp) =>
                    /\ en.health = <<en.max_hp[1] - en.hits, en.max_hp[2]>>
                    /\ en.in_groups <=> en.hits < KillingHit(en.max_hp)
                    /\ en.in_groups => ReportsOf(e) = 0
                    /\ ~en.in_groups => /\ ReportsOf(e) = 1
                                        /\ en.hits = KillingHit(en.max_hp)
                    /\ (en.in_groups /\ en.hits > 0)
                         => round9_positive(en.health))
    /\ [][IsBulletHit =>
            LET e == probe'.collided
            IN  /\ probe.enemy[e].in_groups
                /\ probe'.enemy[e].hits = probe.enemy[e].hits + 1
                /\ probe'.enemy[e].health[1] = probe.enemy[e].health[1] - 1
                /\ probe'.enemy[e].health[2] = probe.enemy[e].health[2]
                /\ probe'.enemy[e].in_groups
                     <=> round9_positive(probe'.enemy[e].health)
                /\ probe'.reported =
                     IF probe'.enemy[e].in_groups THEN probe.reported
                     ELSE Append(probe.reported, e)
                /\ \A o \in EnemyIds \ {e} :
                     probe'.enemy[o] = probe.enemy[o]]_vars

\* An enemy of health 2.2 killed by its third hit, and one of health
\* 1.0000000003 killed by its first.
C33_Witness ==
    /\ probe.op = "combat"
    /\ probe.enemy["e1"].max_hp = <<2, 2000000000>>
    /\ probe.enemy["e1"].hits = 3
    /\ ~probe.enemy["e1"].in_groups
    /\ probe.reported = <<"e1">>

C33_WitnessNearInteger ==
    /\ probe.op = "combat"
    /\ probe.enemy["e2"].max_hp = <<1, 3>>
    /\ probe.enemy["e2"].hits = 1
    /\ ~probe.enemy["e2"].in_groups

\* The step is the update of a bullet.
IsBulletUpdate ==
    /\ probe.op = "combat"
    /\ probe' # probe

\* C36: a bullet damages at most one enemy in its lifetime.  The update in
\* which it collides with an enemy hits exactly that one enemy, removes the
\* bullet from all groups and does not move it; a bullet that has left its
\* groups is not updated, moved or made to hit anything again.
C36_BulletHitsOnce ==
    /\ [](probe.op = "combat" =>
            \A b \in BulletIds :
              /\ Len(probe.bullet[b].hit) <= 1
              /\ Len(probe.bullet[b].hit) = 1 => ~probe.bullet[b].in_groups)
    /\ [][IsBulletUpdate =>
            LET b == probe'.updated
                e == probe'.collided
            IN  /\ probe.bullet[b].in_groups
                /\ \A o \in BulletIds \ {b} :
                     probe'.bullet[o] = probe.bullet[o]
                /\ e # "None" =>
                     /\ probe.bullet[b].hit = <<>>
                     /\ probe'.bullet[b].hit = <<e>>
                     /\ ~probe'.bullet[b].in_groups
                     /\ probe'.bullet[b].moves = probe.bullet[b].moves
                     /\ probe'.bullet[b].dist = probe.bullet[b].dist
                     /\ probe'.enemy[e].hits = probe.enemy[e].hits + 1
                     /\ \A o \in EnemyIds \ {e} :
                          probe'.enemy[o] = probe.enemy[o]
                /\ e = "None" =>
                     /\ probe'.bullet[b].hit = probe.bullet[b].hit
                     /\ probe'.enemy = probe.enemy]_vars

\* A bullet that moved once, then hit e1 and left its groups, with e1 and
\* another bullet still in play.
C36_Witness ==
    /\ probe.op = "combat"
    /\ probe.bullet["b1"].hit = <<"e1">>
    /\ probe.bullet["b1"].moves = 1
    /\ ~probe.bullet["b1"].in_groups
    /\ probe.enemy["e1"].in_groups
    /\ probe.enemy["e2"].in_groups
    /\ probe.bullet["b2"].in_groups
    /\ probe.bullet["b2"].updates = 1

\* C34: every enemy in game.enemies was created with health > 0 and has
\* health > 0.
C34_EnemiesHealthPositive ==
    \A e \in BagToSet(enemies) : e.max_hp > 0 /\ e.health > 0

\* The step is a Turret.update().
IsTurretUpdate ==
    /\ probe.op = "turret"
    /\ ~probe.updated
    /\ probe'.updated

\* C35: a Turret.update() creates at most one bullet; a bullet is aimed at
\* an enemy of game.enemies whose rect center no other enemy's is nearer to
\* the turret than, and which is within TURRET_RANGE of it; a turret that
\* shoots has never shot or last shot at least `interval` ticks before, and
\* one that has never shot shoots whenever that enemy is in range.
C35_TurretCooldown ==
    [][IsTurretUpdate =>
         LET group == probe'.group
             in_reach == nearest_of_group(group) # 0
                           /\ can_shoot_enemy(group[nearest_of_group(group)])
         IN  /\ Len(probe'.fired) <= 1
             /\ probe'.shots = probe.shots + Len(probe'.fired)
             /\ probe'.fired # <<>> =>
                  /\ \E i \in 1..Len(group) :
                       /\ group[i] = probe'.fired[1]
                       /\ \A j \in 1..Len(group) :
                            center_distance_squared(group[i])
                              <= center_distance_squared(group[j])
                  /\ pos_distance_squared(probe'.fired[1])
                       <= (2 * TURRET_RANGE) * (2 * TURRET_RANGE)
                  /\ \A s \in probe.shot_on_tick :
                       probe.curr_tick - s >= probe.interval
                  /\ probe'.shot_on_tick = {probe.curr_tick}
             /\ probe'.fired = <<>> =>
                  probe'.shot_on_tick = probe.shot_on_tick
             /\ (probe.shot_on_tick = {} /\ in_reach) =>
                  probe'.fired # <<>>]_vars

\* The default turret's second shot, 45 ticks after its first at tick 0, with
\* two enemies in the group.
C35_Witness ==
    /\ probe.op = "turret"
    /\ probe.interval = TURRET_INTERVAL
    /\ probe.shots = 2
    /\ probe.curr_tick = TURRET_INTERVAL
    /\ probe.shot_on_tick = {TURRET_INTERVAL}
    /\ probe.group = <<281, 201>>
    /\ probe.fired = <<201>>

\* C37: the body of a function wrapped with trigger_once has run at most
\* once, whatever calls were made.
C37_BodyRunsAtMostOnce ==
    probe.op = "trigger" => Len(probe.runs) <= 1

\* The step is a call made on the player.
IsPlayerCall(call) ==
    /\ probe.op = "player"
    /\ probe' # probe
    /\ probe'.call = call

\* C38: player.turrets is never negative.  A click places a turret only when
\* turrets >= 1.0 and the target rectangle overlaps no turret of
\* game.turrets, and each placement takes exactly 1 from turrets; a reported
\* kill adds 1 to enemies_killed and 0.165 + 0.035 * max_hp, as rounded to 8
\* decimals by the setter, to turrets.
C38_TurretInventory ==
    /\ [](probe.op = "player" => probe.turrets >= 0)
    /\ [][IsPlayerCall("while_left_click") =>
            IF probe'.placed # probe.placed
            THEN /\ probe.turrets >= TurretUnit
                 /\ probe'.placed = probe.placed \cup {probe'.arg}
                 /\ \A x \in probe.placed :
                      x - probe'.arg >= TurretWidth
                        \/ probe'.arg - x >= TurretWidth
                 /\ probe'.turrets = probe.turrets - TurretUnit
            ELSE probe'.turrets = probe.turrets]_vars
    /\ [][IsPlayerCall("on_kill_enemy") =>
            LET diff == 100 * (probe'.turrets - probe.turrets
                                 - 165 * (TurretUnit \div 1000))
                          - 35 * probe'.arg
            IN  /\ probe'.enemies_killed = probe.enemies_killed + 1
                /\ probe'.placed = probe.placed
                /\ diff <= 50 /\ diff >= -50
                /\ probe'.arg % HpUnit = 0 => diff = 0]_vars

\* Two turrets side by side, the second bought with kills of whole and of
\* fractional max_hp, and the inventory back at less than one turret.
C38_Witness ==
    /\ probe.op = "player"
    /\ probe.placed = {100, 120}
    /\ probe.call = "while_left_click"
    /\ probe.turrets = 820987
    /\ probe.enemies_killed = 5

\* C39: a spawn_enemies() call spawns at most MAX_ENEMIES_PER_TICK enemies
\* and leaves next_enemy_time >= curr_tick; enemies are spawned only from
\* SPAWN_ENEMY_DELAY_START ticks after the first handle_enemy_spawns() made
\* while enabled; enemy_spawn_interval never increases under
\* increment_interval_once() and is never below MIN_SPAWN_INTERVAL.
C39_IntervalSpawner ==
    /\ [](probe.op = "interval" =>
            /\ probe.enemies_this_tick <= MAX_ENEMIES_PER_TICK
            /\ probe.enemy_spawn_interval >= MIN_SPAWN_INTERVAL
            /\ (probe.handled /\ probe.is_enabled) =>
                 \A t \in probe.next_enemy_time : t >= probe.curr_tick * IUnit
            /\ probe.enemies_this_tick > 0 =>
                 /\ probe.first_handle # {}
                 /\ \A t0 \in probe.first_handle :
                      probe.curr_tick >= t0 + SPAWN_ENEMY_DELAY_START)
    /\ [][(probe.op = "interval" /\ probe'.kills # probe.kills) =>
            /\ probe'.enemy_spawn_interval <= probe.enemy_spawn_interval
            /\ probe'.enemy_spawn_interval >= MIN_SPAWN_INTERVAL]_vars

\* A spawn_enemies() that stopped at MAX_ENEMIES_PER_TICK enemies and brought
\* next_enemy_time up to the current tick, after a kill lowered the interval.
C39_Witness ==
    /\ probe.op = "interval"
    /\ probe.handled
    /\ probe.enemies_this_tick = MAX_ENEMIES_PER_TICK
    /\ probe.next_enemy_time = {probe.curr_tick * IUnit}
    /\ probe.kills = 1
    /\ probe.enemy_spawn_interval = 5 * MIN_SPAWN_INTERVAL + 9

\* The first enemy of a game, spawned SPAWN_ENEMY_DELAY_START ticks after
\* the manager was enabled at tick 2.
C39_WitnessFirstSpawn ==
    /\ probe.op = "interval"
    /\ probe.first_handle = {2}
    /\ probe.curr_tick = 2 + SPAWN_ENEMY_DELAY_START
    /\ probe.enemies_this_tick = 1

=============================================================================
